---- MODULE Spec2Model ----
(***************************************************************************)
(* Stripe -> Supabase plan reconciliation (landlogiq-stripe).              *)
(*                                                                         *)
(* The webhook route handlers, the admin override and the plan resolvers    *)
(* of the repository as a state machine over one Supabase table.           *)
(* Strings that the code inspects (emails, plan names, Stripe ids) are      *)
(* sequences: an e-mail or a plan name is a sequence of characters, a       *)
(* Stripe id is <<prefix, number>>, so that toLowerCase, trim and           *)
(* startsWith are computed and not assumed.  The empty sequence is the     *)
(* falsy value (undefined, null or '').                                    *)
(***************************************************************************)
EXTENDS Integers, Sequences, FiniteSets, TLC

VARIABLES
  env,     \* process.env, fixed when the process starts
  store,   \* the Supabase users table: a set of rows
  clock,   \* the wall clock read by new Date()
  last,    \* the request handled last, what it consumed and the response
  res      \* the last evaluation of the plan resolvers (pure functions)

vars == <<env, store, clock, last, res>>

-----------------------------------------------------------------------------
(* Bounds of the model                                                     *)

\* number of prices in the processor's catalogue (price_1 .. price_MaxId)
MaxId == 3
\* most line items on a subscription
MaxItems == 2
\* the clock runs from 0 to MaxClock
MaxClock == 1
\* events are created at the times 1..MaxCreated
MaxCreated == 2

-----------------------------------------------------------------------------
(* Strings                                                                 *)

Empty == <<>>

Truthy(s) == s # Empty

\* a || b on strings
Or(a, b) == IF Truthy(a) THEN a ELSE b

toLowerCaseChar(c) ==
  CASE c = "A" -> "a"
    [] c = "B" -> "b"
    [] c = "E" -> "e"
    [] c = "P" -> "p"
    [] OTHER   -> c

toLowerCase(s) == [i \in 1..Len(s) |-> toLowerCaseChar(s[i])]

RECURSIVE trimStart(_)
trimStart(s) ==
  IF s # Empty /\ Head(s) = " " THEN trimStart(Tail(s)) ELSE s

RECURSIVE trimEnd(_)
trimEnd(s) ==
  IF s # Empty /\ s[Len(s)] = " " THEN trimEnd(SubSeq(s, 1, Len(s) - 1)) ELSE s

trim(s) == trimEnd(trimStart(s))

startsWith(id, prefix) == id # Empty /\ id[1] = prefix

-----------------------------------------------------------------------------
(* Stripe ids and the processor's catalogue                                *)

Price(n)   == <<"price_", n>>
Product(n) == <<"prod_", n>>

\* the product a price belongs to: two prices per product
ParentOf(n) == (n + 1) \div 2

\* a subscription line item as returned with items.data.price.product
\* expanded (product is an object) or not (product is its id)
Item(n, shape) == [price |-> Price(n), product |-> <<shape, Product(ParentOf(n))>>]

ItemsOf(shape) ==
  UNION {[1..k -> {Item(n, shape) : n \in 1..MaxId}] : k \in 0..MaxItems}

\* typeof prod === 'string' ? prod : prod?.id
productIdOf(prod) == IF prod[1] = "string" THEN prod[2] ELSE prod[2]

\* the ids of the last line item in place of the first
lastItemIds(items) ==
  IF items = <<>> THEN [priceId |-> Empty, productId |-> Empty]
  ELSE [priceId |-> items[Len(items)].price,
        productId |-> productIdOf(items[Len(items)].product)]

\* sub.items.data[0] and the optional chains on it
firstItemIds(items) ==
  IF items = <<>> THEN [priceId |-> Empty, productId |-> Empty]
  ELSE [priceId |-> items[1].price, productId |-> productIdOf(items[1].product)]

-----------------------------------------------------------------------------
(* Configuration (process.env)                                             *)

Labels == <<"Basic", "Pro", "Elite">>

\* ids an operator may put into PRICE_BASIC / PRICE_PRO / PRICE_ELITE:
\* a price id, a product id, something else, or nothing
ConfigIds ==
  {Price(n) : n \in 1..MaxId} \cup {Product(n) : n \in 1..ParentOf(MaxId)}
    \cup {<<"plan_", 1>>, Empty}

WebhookSecret == <<"whsec_1">>
AdminSecret   == <<"admin_1">>

MkEnv(b, p, e, adminVar) ==
  [PRICE_BASIC |-> b, PRICE_PRO |-> p, PRICE_ELITE |-> e,
   STRIPE_WEBHOOK_SECRET |-> WebhookSecret,
   STRIPE_SECRET_KEY |-> <<"sk_test_1">>,
   SUCCESS_URL |-> <<"http://localhost:3000/success">>,
   CANCEL_URL |-> <<"http://localhost:3000/cancel">>,
   ADMIN_PLAN_SECRET     |-> IF adminVar = "ADMIN_PLAN_SECRET" THEN AdminSecret ELSE Empty,
   ADMIN_SET_PLAN_SECRET |-> IF adminVar = "ADMIN_SET_PLAN_SECRET" THEN AdminSecret ELSE Empty]

\* the deployments the handlers are explored under: the README's three price
\* ids (with the admin secret under the name the code reads, and under the
\* name the README gives it), a product id for Basic, Basic left unset, and
\* one price id pasted into two variables
EnvConfigs ==
  { MkEnv(Price(1), Price(2), Price(3), "ADMIN_PLAN_SECRET"),
    MkEnv(Price(1), Price(2), Price(3), "ADMIN_SET_PLAN_SECRET"),
    MkEnv(Product(1), Price(2), Price(3), "ADMIN_PLAN_SECRET"),
    MkEnv(Empty, Price(2), Price(3), "ADMIN_PLAN_SECRET"),
    MkEnv(Price(1), Price(1), Price(3), "ADMIN_PLAN_SECRET") }

\* the price of the i-th plan in the processor's catalogue: the id the
\* README's configuration puts into the plan's variable
PlanPrice(i) == Price(i)

\* every configuration of the three plan variables, for the resolvers
AllEnvs ==
  { MkEnv(b, p, e, "ADMIN_PLAN_SECRET") : b \in ConfigIds, p \in ConfigIds, e \in ConfigIds }

ENV_IDS(label) ==
  CASE label = "Basic" -> env.PRICE_BASIC
    [] label = "Pro"   -> env.PRICE_PRO
    [] label = "Elite" -> env.PRICE_ELITE

-----------------------------------------------------------------------------
(* Plan mapping                                                            *)

undefined == [plan |-> "", limit |-> ""]

PlanInfo(label) ==
  CASE label = "Basic" -> [plan |-> "Basic", limit |-> "10"]
    [] label = "Pro"   -> [plan |-> "Pro",   limit |-> "30"]
    [] label = "Elite" -> [plan |-> "Elite", limit |-> "unlimited"]

PlanInfos == {PlanInfo(Labels[i]) : i \in 1..Len(Labels)}

\* the loop comparing a configured id with both tokens whatever its prefix
RECURSIVE resolvePlanUngatedLoop(_, _, _)
resolvePlanUngatedLoop(i, priceId, productId) ==
  IF i > Len(Labels) THEN undefined
  ELSE LET label == Labels[i]
           id    == ENV_IDS(label)
       IN IF ~Truthy(id) THEN resolvePlanUngatedLoop(i + 1, priceId, productId)
          ELSE IF Truthy(priceId) /\ id = priceId THEN PlanInfo(label)
          ELSE IF Truthy(productId) /\ id = productId THEN PlanInfo(label)
          ELSE resolvePlanUngatedLoop(i + 1, priceId, productId)

\* the loop of resolvePlan from entry i on
RECURSIVE resolvePlanLoop(_, _, _)
resolvePlanLoop(i, priceId, productId) ==
  IF i > Len(Labels) THEN undefined
  ELSE LET label == Labels[i]
           id    == ENV_IDS(label)
       IN IF ~Truthy(id) THEN resolvePlanLoop(i + 1, priceId, productId)
          ELSE IF startsWith(id, "price_") /\ Truthy(priceId) /\ id = priceId
            THEN PlanInfo(label)
          ELSE IF startsWith(id, "prod_") /\ Truthy(productId) /\ id = productId
            THEN PlanInfo(label)
          ELSE resolvePlanLoop(i + 1, priceId, productId)

resolvePlan(priceId, productId) == resolvePlanLoop(1, priceId, productId)

\* part_005: the first entry whose configured id is the given id
RECURSIVE resolvePlanByIdLoop(_, _)
resolvePlanByIdLoop(i, id) ==
  IF i > Len(Labels) THEN undefined
  ELSE LET envId == ENV_IDS(Labels[i])
       IN IF ~Truthy(envId) THEN resolvePlanByIdLoop(i + 1, id)
          ELSE IF envId = id THEN PlanInfo(Labels[i])
          ELSE resolvePlanByIdLoop(i + 1, id)

resolvePlanById(id) == IF ~Truthy(id) THEN undefined ELSE resolvePlanByIdLoop(1, id)

resolvePlanFromSubscription(items) ==
  LET ids == firstItemIds(items)
      byPrice == resolvePlanById(ids.priceId)
  IN IF byPrice # undefined THEN byPrice ELSE resolvePlanById(ids.productId)

-----------------------------------------------------------------------------
(* The Supabase table                                                      *)

\* SQL NULL in a text column, in a column holding a Stripe id, in a timestamp
NULL == "NULL"
NoId == Empty
NoTime == 0 - 1

\* a row nothing has been written to: every column at its default
DefaultRow(email) ==
  [email |-> email, plan |-> NULL, daily_comp_limit |-> NULL,
   stripe_customer_id |-> NoId, stripe_subscription_id |-> NoId,
   last_checkout_session_id |-> NoId, updated_at |-> NoTime]

\* the row with the columns of payload overwritten
Overwrite(row, payload) ==
  [email |-> row.email,
   plan |-> IF "plan" \in DOMAIN payload THEN payload.plan ELSE row.plan,
   daily_comp_limit |->
     IF "daily_comp_limit" \in DOMAIN payload THEN payload.daily_comp_limit
     ELSE row.daily_comp_limit,
   stripe_customer_id |->
     IF "stripe_customer_id" \in DOMAIN payload THEN payload.stripe_customer_id
     ELSE row.stripe_customer_id,
   stripe_subscription_id |->
     IF "stripe_subscription_id" \in DOMAIN payload THEN payload.stripe_subscription_id
     ELSE row.stripe_subscription_id,
   last_checkout_session_id |->
     IF "last_checkout_session_id" \in DOMAIN payload THEN payload.last_checkout_session_id
     ELSE row.last_checkout_session_id,
   updated_at |->
     IF "updated_at" \in DOMAIN payload THEN payload.updated_at ELSE row.updated_at]

\* upsert without onConflict: a plain INSERT
upsertAsInsert(table, payload) ==
  table \cup {Overwrite(DefaultRow(payload.email), payload)}

\* a write that replaces the table by the one row written
upsertTruncating(table, payload) ==
  {Overwrite(DefaultRow(payload.email), payload)}

\* upsert with ignoreDuplicates: INSERT ... ON CONFLICT (email) DO NOTHING
upsertIgnoringDuplicates(table, payload) ==
  IF \E r \in table : r.email = payload.email
  THEN table
  ELSE table \cup {Overwrite(DefaultRow(payload.email), payload)}

\* supabase.from(table).upsert(payload, { onConflict: emailCol }):
\* INSERT ... ON CONFLICT (email) DO UPDATE SET <the payload's columns>
upsert(table, payload) ==
  IF \E r \in table : r.email = payload.email
  THEN {IF r.email = payload.email THEN Overwrite(r, payload) ELSE r : r \in table}
  ELSE table \cup {Overwrite(DefaultRow(payload.email), payload)}

\* an update that inserts the row when none matches
updateOrInsert(table, payload, email) ==
  IF \E r \in table : r.email = email
  THEN {IF r.email = email THEN Overwrite(r, payload) ELSE r : r \in table}
  ELSE table \cup {Overwrite(DefaultRow(email), payload)}

\* supabase.from(table).update(payload).eq(emailCol, email)
update(table, payload, email) ==
  {IF r.email = email THEN Overwrite(r, payload) ELSE r : r \in table}

-----------------------------------------------------------------------------
(* Webhook requests and what the processor and the store answer            *)

NoCustomer == Empty
NoSubscription == Empty

\* the body of a delivery: event.data.object of the event kinds the handlers
\* look at (a field an event kind does not carry is empty), in the layout of
\* the bytes the processor signed and sent (indented JSON)
Event(type, cd, ce, cust, mode, subscription, items) ==
  [type |-> type, id |-> <<"cs_1">>, customer_details_email |-> cd, customer_email |-> ce,
   customer |-> cust, mode |-> mode, subscription |-> subscription, items |-> items,
   layout |-> "pretty"]

CheckoutEvents ==
  { Event("checkout.session.completed", cd, ce, cust, mode, subscription, <<>>) :
      cd \in {Empty, <<"A">>}, ce \in {Empty, <<"a">>},
      cust \in {NoCustomer, <<"cus_1">>},
      mode \in {"subscription", "payment"},
      subscription \in {NoSubscription, <<"sub_1">>} }

SubscriptionCreatedEvents ==
  { Event("customer.subscription.created", Empty, Empty, cust, "", <<"sub_1">>, items) :
      cust \in {NoCustomer, <<"cus_1">>, <<"object", <<"a">>>>},
      items \in ItemsOf("string") }

InvoiceEvents ==
  { Event("invoice.payment_succeeded", Empty, ce, cust, "", subscription, <<>>) :
      ce \in {Empty, <<"a">>}, cust \in {NoCustomer, <<"cus_1">>},
      subscription \in {NoSubscription, <<"sub_1">>} }

OtherEvents ==
  { Event("charge.succeeded", Empty, Empty, <<"cus_1">>, "", NoSubscription, <<>>) }

Events == CheckoutEvents \cup SubscriptionCreatedEvents \cup InvoiceEvents \cup OtherEvents

\* the Stripe-Signature header value for a body signed with a secret
Sign(body, secret) == [secret |-> secret, signed |-> body]

\* a body changed after it was signed
Tamper(body) ==
  [body EXCEPT !.customer_details_email = IF @ = <<"A">> THEN <<"a">> ELSE <<"A">>]

\* bodies sent by somebody who does not hold the secret
ForgedBodies ==
  { Event("checkout.session.completed", <<"A">>, Empty, NoCustomer, "subscription",
          <<"sub_1">>, <<>>),
    Event("customer.subscription.created", Empty, Empty, <<"object", <<"a">>>>, "",
          <<"sub_1">>, <<Item(1, "string")>>) }

\* requests: a body and the stripe-signature header (empty when missing)
GenuineRequests ==
  { [body |-> b, sig |-> <<Sign(b, WebhookSecret)>>] : b \in Events }

ForgedHeaders(b) ==
  {Empty, <<Sign(b, <<"whsec_2">>)>>, <<Sign(Tamper(b), WebhookSecret)>>}

ForgedRequests ==
  UNION { { [body |-> b, sig |-> h] : h \in ForgedHeaders(b) } : b \in ForgedBodies }

Requests == GenuineRequests \cup ForgedRequests

\* JSON.stringify(await req.json()): the body parsed and serialized again,
\* which loses the layout of the bytes received
textReserialized(body) == [body EXCEPT !.layout = "compact"]

\* await req.text(): the bytes of the body as they were received
text(body) == body

\* stripe.webhooks.constructEvent(rawBody, sig, secret): the event, or a throw
constructEvent(rawBody, sig, secret) ==
  IF sig = Sign(rawBody, secret) THEN [threw |-> FALSE, event |-> rawBody]
  ELSE [threw |-> TRUE, event |-> rawBody]

\* what stripe.customers.retrieve answers
CustomerResults ==
  {<<"error">>, <<"deleted">>, <<"customer", Empty>>, <<"customer", <<"A">>>>}

\* what stripe.subscriptions.retrieve answers
SubResults ==
  {<<"error">>} \cup {<<"subscription", items>> : items \in ItemsOf("object")}

Unused == <<"unused">>

-----------------------------------------------------------------------------
(* Helpers of the handler of src/app/api/stripe-webhook/route.ts           *)

\* what a helper returns: a value, whether it threw, the API calls it made
Ret(value, threw, calls) == [value |-> value, threw |-> threw, calls |-> calls]

getEmailFromCustomer(customer, cr) ==
  IF ~Truthy(customer) THEN Ret(Empty, FALSE, <<>>)
  ELSE IF customer[1] = "object" THEN Ret(customer[2], FALSE, <<>>)
  ELSE IF cr = <<"error">> THEN Ret(Empty, TRUE, <<"customers.retrieve">>)
  ELSE IF cr = <<"deleted">> THEN Ret(Empty, FALSE, <<"customers.retrieve">>)
  ELSE Ret(cr[2], FALSE, <<"customers.retrieve">>)

NoIds == [priceId |-> Empty, productId |-> Empty]

\* getPriceAndProductFromSub with the error of the fetch swallowed
getPriceAndProductFromSubSwallowed(sr) ==
  IF sr = <<"error">> THEN Ret(NoIds, FALSE, <<"subscriptions.retrieve">>)
  ELSE Ret(firstItemIds(sr[2]), FALSE, <<"subscriptions.retrieve">>)

getPriceAndProductFromSub(sr) ==
  IF sr = <<"error">> THEN Ret(NoIds, TRUE, <<"subscriptions.retrieve">>)
  ELSE Ret(firstItemIds(sr[2]), FALSE, <<"subscriptions.retrieve">>)

\* upsertSupabase without the throw on error
upsertSupabaseSilent(table, email, mapping, dbOk) ==
  IF dbOk
  THEN [table |-> upsert(table, [email |-> email, plan |-> mapping.plan,
                                 daily_comp_limit |-> mapping.limit]),
        threw |-> FALSE]
  ELSE [table |-> table, threw |-> FALSE]

\* what upsertSupabase does to the table, and whether it threw
upsertSupabase(table, email, mapping, dbOk) ==
  IF dbOk
  THEN [table |-> upsert(table, [email |-> email, plan |-> mapping.plan,
                                 daily_comp_limit |-> mapping.limit]),
        threw |-> FALSE]
  ELSE [table |-> table, threw |-> TRUE]

\* the response and the effects of one run of a handler
Outcome(status, table, calls, writes) ==
  [status |-> status, table |-> table, calls |-> calls, writes |-> writes]

\* the common tail with the skip answered as a server error
applyOrFail(table, email, mapping, calls, dbOk) ==
  IF ~Truthy(email) \/ mapping = undefined
  THEN Outcome(500, table, calls, 0)
  ELSE LET w == upsertSupabase(table, email, mapping, dbOk)
       IN IF w.threw THEN Outcome(500, w.table, calls, 1)
          ELSE Outcome(200, w.table, calls, 1)

\* the common tail of the three cases: skip, or upsert and break
applyOrSkip(table, email, mapping, calls, dbOk) ==
  IF ~Truthy(email) \/ mapping = undefined
  THEN Outcome(200, table, calls, 0)
  ELSE LET w == upsertSupabase(table, email, mapping, dbOk)
       IN IF w.threw THEN Outcome(500, w.table, calls, 1)
          ELSE Outcome(200, w.table, calls, 1)

\* the case with the legacy field read before customer_details.email
caseCheckoutLegacyFirst(table, session, cr, sr, dbOk) ==
  LET embedded == Or(session.customer_email, session.customer_details_email)
      lookup == IF Truthy(embedded) THEN Ret(Empty, FALSE, <<>>)
                ELSE getEmailFromCustomer(session.customer, cr)
      email == Or(embedded, lookup.value)
      fetch == session.mode = "subscription" /\ Truthy(session.subscription)
      ids == IF fetch THEN getPriceAndProductFromSub(sr) ELSE Ret(NoIds, FALSE, <<>>)
      mapping == resolvePlan(ids.value.priceId, ids.value.productId)
  IN IF lookup.threw THEN Outcome(500, table, lookup.calls, 0)
     ELSE IF ids.threw THEN Outcome(500, table, lookup.calls \o ids.calls, 0)
     ELSE applyOrSkip(table, email, mapping, lookup.calls \o ids.calls, dbOk)

\* the checkout case fetching the subscription whatever the session's mode
caseCheckoutAlwaysFetch(table, session, cr, sr, dbOk) ==
  LET embedded == Or(session.customer_details_email, session.customer_email)
      lookup == IF Truthy(embedded) THEN Ret(Empty, FALSE, <<>>)
                ELSE getEmailFromCustomer(session.customer, cr)
      email == Or(embedded, lookup.value)
      ids == getPriceAndProductFromSub(sr)
      mapping == resolvePlan(ids.value.priceId, ids.value.productId)
  IN IF lookup.threw THEN Outcome(500, table, lookup.calls, 0)
     ELSE IF ids.threw THEN Outcome(500, table, lookup.calls \o ids.calls, 0)
     ELSE applyOrSkip(table, email, mapping, lookup.calls \o ids.calls, dbOk)

caseCheckoutSessionCompleted(table, session, cr, sr, dbOk) ==
  LET embedded == Or(session.customer_details_email, session.customer_email)
      lookup == IF Truthy(embedded) THEN Ret(Empty, FALSE, <<>>)
                ELSE getEmailFromCustomer(session.customer, cr)
      email == Or(embedded, lookup.value)
      fetch == session.mode = "subscription" /\ Truthy(session.subscription)
      ids == IF fetch THEN getPriceAndProductFromSub(sr) ELSE Ret(NoIds, FALSE, <<>>)
      mapping == resolvePlan(ids.value.priceId, ids.value.productId)
  IN IF lookup.threw THEN Outcome(500, table, lookup.calls, 0)
     ELSE IF ids.threw THEN Outcome(500, table, lookup.calls \o ids.calls, 0)
     ELSE applyOrSkip(table, email, mapping, lookup.calls \o ids.calls, dbOk)

caseSubscriptionCreated(table, sub, cr, dbOk) ==
  LET lookup == getEmailFromCustomer(sub.customer, cr)
      ids == firstItemIds(sub.items)
      mapping == resolvePlan(ids.priceId, ids.productId)
  IN IF lookup.threw THEN Outcome(500, table, lookup.calls, 0)
     ELSE applyOrSkip(table, lookup.value, mapping, lookup.calls, dbOk)

caseInvoicePaymentSucceeded(table, inv, cr, sr, dbOk) ==
  LET lookup == IF Truthy(inv.customer_email) THEN Ret(Empty, FALSE, <<>>)
                ELSE getEmailFromCustomer(inv.customer, cr)
      email == Or(inv.customer_email, lookup.value)
      ids == getPriceAndProductFromSub(sr)
      mapping == resolvePlan(ids.value.priceId, ids.value.productId)
  IN IF lookup.threw THEN Outcome(500, table, lookup.calls, 0)
     ELSE IF ~Truthy(inv.subscription) THEN Outcome(200, table, lookup.calls, 0)
     ELSE IF ids.threw THEN Outcome(500, table, lookup.calls \o ids.calls, 0)
     ELSE applyOrSkip(table, email, mapping, lookup.calls \o ids.calls, dbOk)

\* the switch with no default: every other type is taken for an invoice
switchEventTypeNoDefault(table, event, cr, sr, dbOk) ==
  CASE event.type = "checkout.session.completed" ->
         caseCheckoutSessionCompleted(table, event, cr, sr, dbOk)
    [] event.type = "customer.subscription.created" ->
         caseSubscriptionCreated(table, event, cr, dbOk)
    [] OTHER -> caseInvoicePaymentSucceeded(table, event, cr, sr, dbOk)

\* the switch whose default case returns no response
switchEventTypeNoReturn(table, event, cr, sr, dbOk) ==
  CASE event.type = "checkout.session.completed" ->
         caseCheckoutSessionCompleted(table, event, cr, sr, dbOk)
    [] event.type = "customer.subscription.created" ->
         caseSubscriptionCreated(table, event, cr, dbOk)
    [] event.type = "invoice.payment_succeeded" ->
         caseInvoicePaymentSucceeded(table, event, cr, sr, dbOk)
    [] OTHER -> Outcome(0, table, <<>>, 0)

\* the switch on event.type inside the try block
switchEventType(table, event, cr, sr, dbOk) ==
  CASE event.type = "checkout.session.completed" ->
         caseCheckoutSessionCompleted(table, event, cr, sr, dbOk)
    [] event.type = "customer.subscription.created" ->
         caseSubscriptionCreated(table, event, cr, dbOk)
    [] event.type = "invoice.payment_succeeded" ->
         caseInvoicePaymentSucceeded(table, event, cr, sr, dbOk)
    [] OTHER -> Outcome(200, table, <<>>, 0)

\* POST parsing the body without verifying the signature
handlePOSTUnverified(table, req, cr, sr, dbOk) ==
  switchEventType(table, req.body, cr, sr, dbOk)

\* one run of POST (route.ts, line 209) on a request
handlePOST(table, req, cr, sr, dbOk) ==
  IF ~Truthy(req.sig) THEN Outcome(400, table, <<>>, 0)
  ELSE LET ce == constructEvent(text(req.body), req.sig[1], env.STRIPE_WEBHOOK_SECRET)
       IN IF ce.threw THEN Outcome(400, table, <<>>, 0)
          ELSE switchEventType(table, ce.event, cr, sr, dbOk)

-----------------------------------------------------------------------------
(* The first handler of src/app/api/stripe-webhook/route.ts (line 36)      *)

\* resolvePlan as written at line 19: id?.startsWith(...) in place of the
\* guard on an unset id
RECURSIVE resolvePlanFirstLoop(_, _, _)
resolvePlanFirstLoop(i, priceId, productId) ==
  IF i > Len(Labels) THEN undefined
  ELSE LET label == Labels[i]
           id    == ENV_IDS(label)
       IN IF Truthy(id) /\ startsWith(id, "price_") /\ Truthy(priceId) /\ id = priceId
            THEN PlanInfo(label)
          ELSE IF Truthy(id) /\ startsWith(id, "prod_") /\ Truthy(productId) /\ id = productId
            THEN PlanInfo(label)
          ELSE resolvePlanFirstLoop(i + 1, priceId, productId)

resolvePlanFirst(priceId, productId) == resolvePlanFirstLoop(1, priceId, productId)

\* stripe.customers.retrieve(session.customer) written in line in a handler
retrieveCustomerEmail(cr) ==
  IF cr = <<"error">> THEN Ret(Empty, TRUE, <<"customers.retrieve">>)
  ELSE IF cr = <<"deleted">> THEN Ret(Empty, FALSE, <<"customers.retrieve">>)
  ELSE Ret(cr[2], FALSE, <<"customers.retrieve">>)

\* the row the first handler upserts: the audit columns always, plan and
\* limit only with a mapping
upsertRow(session, email, mapping) ==
  LET audit == [email |-> email,
                stripe_customer_id |-> session.customer,
                stripe_subscription_id |-> session.subscription,
                last_checkout_session_id |-> session.id]
  IN IF mapping # undefined
     THEN [email |-> email,
           stripe_customer_id |-> session.customer,
           stripe_subscription_id |-> session.subscription,
           last_checkout_session_id |-> session.id,
           plan |-> mapping.plan, daily_comp_limit |-> mapping.limit]
     ELSE audit

checkoutFirst(table, session, cr, sr, dbOk) ==
  LET embedded == Or(session.customer_details_email, session.customer_email)
      lookup == IF ~Truthy(embedded) /\ Truthy(session.customer)
                THEN retrieveCustomerEmail(cr) ELSE Ret(Empty, FALSE, <<>>)
      email == Or(embedded, lookup.value)
      fetch == session.mode = "subscription" /\ Truthy(session.subscription)
      ids == IF fetch THEN getPriceAndProductFromSub(sr) ELSE Ret(NoIds, FALSE, <<>>)
      mapping == resolvePlanFirst(ids.value.priceId, ids.value.productId)
      calls == lookup.calls \o ids.calls
  IN IF lookup.threw THEN Outcome(500, table, lookup.calls, 0)
     ELSE IF ids.threw THEN Outcome(500, table, calls, 0)
     ELSE IF ~Truthy(email) THEN Outcome(200, table, calls, 0)
     ELSE IF dbOk THEN Outcome(200, upsert(table, upsertRow(session, email, mapping)), calls, 1)
     ELSE Outcome(500, table, calls, 1)

handlePOSTFirst(table, req, cr, sr, dbOk) ==
  IF ~Truthy(req.sig) THEN Outcome(400, table, <<>>, 0)
  ELSE LET ce == constructEvent(text(req.body), req.sig[1], env.STRIPE_WEBHOOK_SECRET)
       IN IF ce.threw THEN Outcome(400, table, <<>>, 0)
          ELSE IF ce.event.type = "checkout.session.completed"
            THEN checkoutFirst(table, ce.event, cr, sr, dbOk)
          ELSE Outcome(200, table, <<>>, 0)

-----------------------------------------------------------------------------
(* The last handler of src/unnamed/part_002 (line 309)                     *)

\* the object literal keyed by the three configured ids: a later key
\* replaces an equal earlier one
PRICE_TO_PLAN(priceId) ==
  IF ENV_IDS("Elite") = priceId THEN PlanInfo("Elite")
  ELSE IF ENV_IDS("Pro") = priceId THEN PlanInfo("Pro")
  ELSE IF ENV_IDS("Basic") = priceId THEN PlanInfo("Basic")
  ELSE undefined

\* new Date().toISOString()
now == clock

checkoutStamped(table, session, cr, sr, dbOk) ==
  LET embedded == Or(session.customer_details_email, session.customer_email)
      lookup == IF ~Truthy(embedded) /\ Truthy(session.customer)
                THEN retrieveCustomerEmail(cr) ELSE Ret(Empty, FALSE, <<>>)
      email == Or(embedded, lookup.value)
      fetch == session.mode = "subscription" /\ Truthy(session.subscription)
      ids == IF fetch THEN getPriceAndProductFromSub(sr) ELSE Ret(NoIds, FALSE, <<>>)
      priceId == ids.value.priceId
      mapping == IF Truthy(priceId) THEN PRICE_TO_PLAN(priceId) ELSE undefined
      calls == lookup.calls \o ids.calls
  IN IF lookup.threw THEN Outcome(500, table, lookup.calls, 0)
     ELSE IF ids.threw THEN Outcome(500, table, calls, 0)
     ELSE IF ~Truthy(email) \/ mapping = undefined THEN Outcome(200, table, calls, 0)
     ELSE IF dbOk
       THEN Outcome(200, upsert(table, [email |-> email, plan |-> mapping.plan,
                                        daily_comp_limit |-> mapping.limit,
                                        updated_at |-> now]), calls, 1)
     ELSE Outcome(500, table, calls, 1)

handlePOSTStamped(table, req, cr, sr, dbOk) ==
  IF ~Truthy(req.sig) THEN Outcome(400, table, <<>>, 0)
  ELSE LET ce == constructEvent(text(req.body), req.sig[1], env.STRIPE_WEBHOOK_SECRET)
       IN IF ce.threw THEN Outcome(400, table, <<>>, 0)
          ELSE IF ce.event.type = "checkout.session.completed"
            THEN checkoutStamped(table, ce.event, cr, sr, dbOk)
          ELSE Outcome(200, table, <<>>, 0)

-----------------------------------------------------------------------------
(* The handler of src/unnamed/part_006                                     *)

\* the session of a checkout.session.completed event: the plan is looked up
\* by the price id alone
checkoutPriceOnly(table, session, cr, sr, dbOk) ==
  LET embedded == Or(session.customer_details_email, session.customer_email)
      lookup == IF ~Truthy(embedded) /\ Truthy(session.customer)
                THEN retrieveCustomerEmail(cr) ELSE Ret(Empty, FALSE, <<>>)
      email == Or(embedded, lookup.value)
      fetch == session.mode = "subscription" /\ Truthy(session.subscription)
      ids == IF fetch THEN getPriceAndProductFromSub(sr) ELSE Ret(NoIds, FALSE, <<>>)
      priceId == ids.value.priceId
      mapping == IF Truthy(priceId) THEN PRICE_TO_PLAN(priceId) ELSE undefined
      calls == lookup.calls \o ids.calls
  IN IF lookup.threw THEN Outcome(500, table, lookup.calls, 0)
     ELSE IF ids.threw THEN Outcome(500, table, calls, 0)
     ELSE IF ~Truthy(email) \/ mapping = undefined THEN Outcome(200, table, calls, 0)
     ELSE IF dbOk
       THEN Outcome(200, upsert(table, [email |-> email, plan |-> mapping.plan,
                                        daily_comp_limit |-> mapping.limit]), calls, 1)
     ELSE Outcome(500, table, calls, 1)

handlePOSTPriceOnly(table, req, cr, sr, dbOk) ==
  IF ~Truthy(req.sig) THEN Outcome(400, table, <<>>, 0)
  ELSE LET ce == constructEvent(text(req.body), req.sig[1], env.STRIPE_WEBHOOK_SECRET)
       IN IF ce.threw THEN Outcome(400, table, <<>>, 0)
          ELSE IF ce.event.type # "checkout.session.completed"
            THEN Outcome(200, table, <<>>, 0)
          ELSE checkoutPriceOnly(table, ce.event, cr, sr, dbOk)

-----------------------------------------------------------------------------
(* The handler of src/unnamed/part_005                                     *)

\* getEmailFromCustomer of part_005: the error of the lookup is swallowed
getEmailFromCustomerQuiet(customerId, cr) ==
  IF ~Truthy(customerId) THEN Ret(Empty, FALSE, <<>>)
  ELSE IF cr \in {<<"error">>, <<"deleted">>} THEN Ret(Empty, FALSE, <<"customers.retrieve">>)
  ELSE Ret(cr[2], FALSE, <<"customers.retrieve">>)

\* upsertPlan: nothing is written without a mapping; a store error is thrown
upsertPlan(table, email, mapping, calls, dbOk) ==
  IF mapping = undefined THEN Outcome(200, table, calls, 0)
  ELSE IF dbOk
    THEN Outcome(200, upsert(table, [email |-> email, plan |-> mapping.plan,
                                     daily_comp_limit |-> mapping.limit]), calls, 1)
  ELSE Outcome(500, table, calls, 1)

\* stripe.subscriptions.retrieve(id) and the mapping of what it answers
retrieveAndResolve(sr) ==
  IF sr = <<"error">> THEN Ret(undefined, TRUE, <<"subscriptions.retrieve">>)
  ELSE Ret(resolvePlanFromSubscription(sr[2]), FALSE, <<"subscriptions.retrieve">>)

\* the customer of a subscription retrieved without expansion: an id
customerIdOf(customer) ==
  IF ~Truthy(customer) THEN NoCustomer
  ELSE IF customer[1] = "object" THEN <<"cus_1">>
  ELSE customer

caseInvoiceRefetch(table, inv, cr, sr, dbOk) ==
  LET lookup == IF Truthy(inv.customer_email) THEN Ret(Empty, FALSE, <<>>)
                ELSE getEmailFromCustomerQuiet(inv.customer, cr)
      email == Or(inv.customer_email, lookup.value)
      sub == IF Truthy(inv.subscription) THEN retrieveAndResolve(sr)
             ELSE Ret(undefined, FALSE, <<>>)
      calls == lookup.calls \o sub.calls
  IN IF sub.threw THEN Outcome(500, table, calls, 0)
     ELSE IF Truthy(email) THEN upsertPlan(table, email, sub.value, calls, dbOk)
     ELSE Outcome(200, table, calls, 0)

caseSubscriptionRefetch(table, subObj, cr, sr, dbOk) ==
  LET sub == retrieveAndResolve(sr)
      lookup == getEmailFromCustomerQuiet(customerIdOf(subObj.customer), cr)
      calls == sub.calls \o lookup.calls
  IN IF sub.threw THEN Outcome(500, table, sub.calls, 0)
     ELSE IF Truthy(lookup.value) THEN upsertPlan(table, lookup.value, sub.value, calls, dbOk)
     ELSE Outcome(200, table, calls, 0)

caseCheckoutRefetch(table, session, cr, sr, dbOk) ==
  LET lookup == IF Truthy(session.customer_details_email) THEN Ret(Empty, FALSE, <<>>)
                ELSE getEmailFromCustomerQuiet(session.customer, cr)
      email == Or(session.customer_details_email, lookup.value)
      fetch == session.mode = "subscription" /\ Truthy(session.subscription)
      sub == IF fetch THEN retrieveAndResolve(sr) ELSE Ret(undefined, FALSE, <<>>)
      calls == lookup.calls \o sub.calls
  IN IF sub.threw THEN Outcome(500, table, calls, 0)
     ELSE IF Truthy(email) THEN upsertPlan(table, email, sub.value, calls, dbOk)
     ELSE Outcome(200, table, calls, 0)

handlePOSTRefetch(table, req, cr, sr, dbOk) ==
  IF ~Truthy(req.sig) THEN Outcome(400, table, <<>>, 0)
  ELSE LET ce == constructEvent(text(req.body), req.sig[1], env.STRIPE_WEBHOOK_SECRET)
       IN IF ce.threw THEN Outcome(400, table, <<>>, 0)
          ELSE CASE ce.event.type = "invoice.payment_succeeded" ->
                      caseInvoiceRefetch(table, ce.event, cr, sr, dbOk)
                 [] ce.event.type \in {"customer.subscription.created",
                                       "customer.subscription.updated"} ->
                      caseSubscriptionRefetch(table, ce.event, cr, sr, dbOk)
                 [] ce.event.type = "checkout.session.completed" ->
                      caseCheckoutRefetch(table, ce.event, cr, sr, dbOk)
                 [] OTHER -> Outcome(200, table, <<>>, 0)

-----------------------------------------------------------------------------
(* The first handler of src/unnamed/part_002 (line 47): update only        *)

\* what stripe.checkout.sessions.retrieve answers with line_items expanded:
\* an error, or the line items and customer_details.email of the session
SessionResults ==
  {<<"error">>} \cup
  { <<"session", items, email>> :
      items \in {it \in ItemsOf("string") : Len(it) <= 1}, email \in {Empty, <<"A">>} }

\* resolveEmailAndPrice: the email and the price id, or a throw
resolveEmailAndPrice(session, cr, sr) ==
  LET email == session.customer_details_email
  IN IF session.mode = "subscription" /\ Truthy(session.subscription)
       THEN IF sr = <<"error">>
              THEN Ret([email |-> Empty, priceId |-> Empty], TRUE, <<"subscriptions.retrieve">>)
            ELSE LET priceId == firstItemIds(sr[2]).priceId
                     lookup == IF ~Truthy(email) /\ Truthy(session.customer)
                               THEN retrieveCustomerEmail(cr) ELSE Ret(Empty, FALSE, <<>>)
                 IN Ret([email |-> Or(email, lookup.value), priceId |-> priceId],
                        lookup.threw, <<"subscriptions.retrieve">> \o lookup.calls)
     ELSE IF sr = <<"error">>
       THEN Ret([email |-> Empty, priceId |-> Empty], TRUE, <<"checkout.sessions.retrieve">>)
     ELSE Ret([email |-> Or(email, sr[3]), priceId |-> firstItemIds(sr[2]).priceId],
              FALSE, <<"checkout.sessions.retrieve">>)

checkoutUpdateOnly(table, session, cr, sr, dbOk) ==
  LET r == resolveEmailAndPrice(session, cr, sr)
      email == r.value.email
      priceId == r.value.priceId
      mapping == IF Truthy(priceId) THEN PRICE_TO_PLAN(priceId) ELSE undefined
  IN IF r.threw THEN Outcome(500, table, r.calls, 0)
     ELSE IF ~Truthy(email) \/ mapping = undefined THEN Outcome(200, table, r.calls, 0)
     ELSE IF dbOk
       THEN Outcome(200, update(table, [plan |-> mapping.plan,
                                        daily_comp_limit |-> mapping.limit], email),
                    r.calls, 1)
     ELSE Outcome(500, table, r.calls, 1)

handlePOSTUpdateOnly(table, req, cr, sr, dbOk) ==
  IF ~Truthy(req.sig) THEN Outcome(400, table, <<>>, 0)
  ELSE LET ce == constructEvent(text(req.body), req.sig[1], env.STRIPE_WEBHOOK_SECRET)
       IN IF ce.threw THEN Outcome(400, table, <<>>, 0)
          ELSE IF ce.event.type = "checkout.session.completed"
            THEN checkoutUpdateOnly(table, ce.event, cr, sr, dbOk)
          ELSE Outcome(200, table, <<>>, 0)

-----------------------------------------------------------------------------
(* The admin override, src/app/api/admin-set-plan/route.ts                 *)

Str_basic == <<"b", "a", "s", "i", "c">>
Str_pro   == <<"p", "r", "o">>
Str_elite == <<"e", "l", "i", "t", "e">>

PLAN_LIMIT(planKey) ==
  CASE planKey = Str_basic -> PlanInfo("Basic")
    [] planKey = Str_pro   -> PlanInfo("Pro")
    [] planKey = Str_elite -> PlanInfo("Elite")
    [] OTHER               -> undefined

\* GET requests: ?secret=, the x-admin-secret header, ?email= and ?plan=
QueryRequests ==
  [ method : {"GET"},
    secret : {Empty, AdminSecret, <<"guess">>},
    x_admin_secret : {Empty, AdminSecret},
    email : {Empty, <<" ">>, <<" ", "A", " ">>, <<"a">>},
    plan : {Empty, Str_basic, <<"P", "r", "o">>, <<" ", "E", "l", "i", "t", "e">>,
            <<"g", "o", "l", "d">>},
    body_email : {Empty},
    body_plan : {Empty} ]

\* the call the README gives: POST ?secret=<the admin secret> with the JSON
\* body { "email": ..., "plan": "Basic|Pro|Elite" }
DocumentedCalls ==
  [ method : {"POST"},
    secret : {AdminSecret},
    x_admin_secret : {Empty},
    email : {Empty},
    plan : {Empty},
    body_email : {<<"a">>},
    body_plan : {<<"B", "a", "s", "i", "c">>, <<"P", "r", "o">>} ]

AdminRequests == QueryRequests \cup DocumentedCalls

\* GET that validates the plan and not the email
handleGETAnyEmail(table, req, dbOk) ==
  LET secret == Or(req.secret, req.x_admin_secret)
      email == toLowerCase(trim(req.email))
      planKey == toLowerCase(trim(req.plan))
      mapping == PLAN_LIMIT(planKey)
  IN IF ~Truthy(secret) \/ secret # env.ADMIN_PLAN_SECRET
       THEN Outcome(401, table, <<>>, 0)
     ELSE IF planKey \notin {Str_basic, Str_pro, Str_elite}
       THEN Outcome(400, table, <<>>, 0)
     ELSE IF dbOk
       THEN Outcome(200, upsert(table, [email |-> email, plan |-> mapping.plan,
                                        daily_comp_limit |-> mapping.limit]), <<>>, 1)
     ELSE Outcome(500, table, <<>>, 1)

\* GET checking the secret only when one is configured
handleGETOpenWhenUnset(table, req, dbOk) ==
  LET secret == Or(req.secret, req.x_admin_secret)
      email == toLowerCase(trim(req.email))
      planKey == toLowerCase(trim(req.plan))
      mapping == PLAN_LIMIT(planKey)
  IN IF Truthy(env.ADMIN_PLAN_SECRET) /\ secret # env.ADMIN_PLAN_SECRET
       THEN Outcome(401, table, <<>>, 0)
     ELSE IF ~Truthy(email) \/ planKey \notin {Str_basic, Str_pro, Str_elite}
       THEN Outcome(400, table, <<>>, 0)
     ELSE IF dbOk
       THEN Outcome(200, upsert(table, [email |-> email, plan |-> mapping.plan,
                                        daily_comp_limit |-> mapping.limit]), <<>>, 1)
     ELSE Outcome(500, table, <<>>, 1)

\* one run of GET on a request
handleGET(table, req, dbOk) ==
  LET secret == Or(req.secret, req.x_admin_secret)
      email == toLowerCase(trim(req.email))
      planKey == toLowerCase(trim(req.plan))
      mapping == PLAN_LIMIT(planKey)
  IN IF ~Truthy(secret) \/ secret # env.ADMIN_PLAN_SECRET
       THEN Outcome(401, table, <<>>, 0)
     ELSE IF ~Truthy(email) \/ planKey \notin {Str_basic, Str_pro, Str_elite}
       THEN Outcome(400, table, <<>>, 0)
     ELSE IF dbOk
       THEN Outcome(200, upsert(table, [email |-> email, plan |-> mapping.plan,
                                        daily_comp_limit |-> mapping.limit]), <<>>, 1)
     ELSE Outcome(500, table, <<>>, 1)

\* the route: GET is the one method the module exports, any other method
\* is answered 405 by the framework
adminSetPlan(table, req, dbOk) ==
  IF req.method = "GET" THEN handleGET(table, req, dbOk)
  ELSE Outcome(405, table, <<>>, 0)

-----------------------------------------------------------------------------
(* The state machine                                                       *)

NoRequest ==
  [h |-> "none", req |-> <<>>, cr |-> Unused, sr |-> Unused, db |-> "unused",
   status |-> 0, calls |-> <<>>, writes |-> 0]

NoRes == [priceId |-> Empty, productId |-> Empty, plan |-> undefined, plan5 |-> undefined]

Init ==
  /\ env \in EnvConfigs
  /\ store = {}
  /\ clock = 0
  /\ last = NoRequest
  /\ res = NoRes

Called(calls, name) == \E i \in 1..Len(calls) : calls[i] = name

\* the answers the environment may give to a call the handler makes
AnswersFor(out, name, answers) == IF Called(out.calls, name) THEN answers ELSE {Unused}

StoreAnswersFor(out) == IF out.writes > 0 THEN {"ok", "error"} ELSE {"unused"}

\* the webhook handler that is deployed under the name h
webhook(h, table, req, cr, sr, dbOk) ==
  CASE h = "POST"        -> handlePOST(table, req, cr, sr, dbOk)
    [] h = "POSTFirst"   -> handlePOSTFirst(table, req, cr, sr, dbOk)
    [] h = "POSTStamped" -> handlePOSTStamped(table, req, cr, sr, dbOk)
    [] h = "POSTPriceOnly" -> handlePOSTPriceOnly(table, req, cr, sr, dbOk)
    [] h = "POSTRefetch" -> handlePOSTRefetch(table, req, cr, sr, dbOk)
    [] h = "POSTUpdateOnly" -> handlePOSTUpdateOnly(table, req, cr, sr, dbOk)

\* a webhook handler serves one request: the processor and the store answer
\* the calls it makes, the table and the response are what the run leaves
Serve(h, req) ==
  \E cr \in AnswersFor(webhook(h, store, req, <<"deleted">>, <<"error">>, FALSE),
                       "customers.retrieve", CustomerResults) :
    \E sr \in AnswersFor(webhook(h, store, req, cr, <<"error">>, FALSE),
                         "subscriptions.retrieve", SubResults) :
      \E db \in StoreAnswersFor(webhook(h, store, req, cr, sr, FALSE)) :
        LET out == webhook(h, store, req, cr, sr, db = "ok")
        IN /\ store' = out.table
           /\ last' = [h |-> h, req |-> req, cr |-> cr, sr |-> sr, db |-> db,
                       status |-> out.status, calls |-> out.calls, writes |-> out.writes]

\* the same for a handler that fetches the subscription before it looks
\* the customer up
ServeSubFirst(h, req) ==
  \E sr \in AnswersFor(webhook(h, store, req, <<"deleted">>, <<"error">>, FALSE),
                       "subscriptions.retrieve", SubResults) :
    \E cr \in AnswersFor(webhook(h, store, req, <<"deleted">>, sr, FALSE),
                         "customers.retrieve", CustomerResults) :
      \E db \in StoreAnswersFor(webhook(h, store, req, cr, sr, FALSE)) :
        LET out == webhook(h, store, req, cr, sr, db = "ok")
        IN /\ store' = out.table
           /\ last' = [h |-> h, req |-> req, cr |-> cr, sr |-> sr, db |-> db,
                       status |-> out.status, calls |-> out.calls, writes |-> out.writes]

\* no request is being handled
Idle == last.h = "none"

\* the webhook endpoint of route.ts (line 209) handles a request
POST ==
  /\ Idle
  /\ \E req \in Requests : Serve("POST", req)
  /\ UNCHANGED <<env, clock, res>>

\* the admin endpoint handles a request
GET ==
  /\ Idle
  /\ \E req \in AdminRequests :
       \E db \in StoreAnswersFor(adminSetPlan(store, req, FALSE)) :
         LET out == adminSetPlan(store, req, db = "ok")
         IN /\ store' = out.table
            /\ last' = [h |-> "GET", req |-> req, cr |-> Unused, sr |-> Unused, db |-> db,
                        status |-> out.status, calls |-> out.calls, writes |-> out.writes]
  /\ UNCHANGED <<env, clock, res>>

\* the response has been sent and the invocation is over: nothing of the
\* request is kept but what it wrote to the table
Respond ==
  /\ ~Idle
  /\ last' = NoRequest
  /\ UNCHANGED <<env, store, clock, res>>

\* the first handler of route.ts (line 36) handles a request
POSTFirst ==
  /\ Idle
  /\ \E req \in Requests : Serve("POSTFirst", req)
  /\ UNCHANGED <<env, clock, res>>

\* the last handler of part_002 (line 309) handles a request
POSTStamped ==
  /\ Idle
  /\ \E req \in Requests : Serve("POSTStamped", req)
  /\ UNCHANGED <<env, clock, res>>

\* the handler of part_006 handles a request
POSTPriceOnly ==
  /\ Idle
  /\ \E req \in Requests : Serve("POSTPriceOnly", req)
  /\ UNCHANGED <<env, clock, res>>

\* the handler of part_005 handles a request
POSTRefetch ==
  /\ Idle
  /\ \E req \in Requests : ServeSubFirst("POSTRefetch", req)
  /\ UNCHANGED <<env, clock, res>>

\* the update-only handler of part_002 handles a request: it asks the
\* processor for the subscription or for the session, then for the customer
POSTUpdateOnly ==
  /\ Idle
  /\ \E req \in Requests :
       LET probe == handlePOSTUpdateOnly(store, req, <<"deleted">>, <<"error">>, FALSE)
           answers == IF Called(probe.calls, "subscriptions.retrieve") THEN SubResults
                      ELSE IF Called(probe.calls, "checkout.sessions.retrieve")
                        THEN SessionResults
                      ELSE {Unused}
       IN \E sr \in answers :
            \E cr \in AnswersFor(handlePOSTUpdateOnly(store, req, <<"deleted">>, sr, FALSE),
                                 "customers.retrieve", CustomerResults) :
              \E db \in StoreAnswersFor(handlePOSTUpdateOnly(store, req, cr, sr, FALSE)) :
                LET out == handlePOSTUpdateOnly(store, req, cr, sr, db = "ok")
                IN /\ store' = out.table
                   /\ last' = [h |-> "POSTUpdateOnly", req |-> req, cr |-> cr, sr |-> sr,
                               db |-> db, status |-> out.status, calls |-> out.calls,
                               writes |-> out.writes]
  /\ UNCHANGED <<env, clock, res>>

\* time passes
Tick ==
  /\ clock < MaxClock
  /\ clock' = clock + 1
  /\ UNCHANGED <<env, store, last, res>>

\* the deployment the README describes: the webhook of route.ts (line 209)
\* and the admin override
Next == POST \/ GET \/ Respond

Spec == Init /\ [][Next]_vars

\* the deployment with the first handler of route.ts as the webhook
NextFirst == POSTFirst \/ GET \/ Respond

SpecFirst == Init /\ [][NextFirst]_vars

\* the deployment with the last handler of part_002 as the webhook
NextStamped == POSTStamped \/ GET \/ Tick \/ Respond

SpecStamped == Init /\ [][NextStamped]_vars

\* a delivery handled by the handler of route.ts (line 209) or by the one of
\* part_006, the two drafts that write email, plan and limit only
NextDrafts == POST \/ POSTPriceOnly \/ Respond

SpecDrafts == Init /\ [][NextDrafts]_vars

\* a delivery handled by the handler of route.ts (line 209) or by the one of
\* part_005, the two drafts that act on customer.subscription.created
NextEmbedded == POST \/ POSTRefetch \/ Respond

SpecEmbedded == Init /\ [][NextEmbedded]_vars

\* the rows the application made at sign-up, before any plan was bought
SignedUp ==
  { [DefaultRow(<<"A">>) EXCEPT !.stripe_customer_id = <<"cus_1">>],
    DefaultRow(<<"a">>) }

InitUpdateOnly ==
  /\ env \in EnvConfigs
  /\ store \in SUBSET SignedUp
  /\ clock = 0
  /\ last = NoRequest
  /\ res = NoRes

\* the deployment with the update-only handler as the webhook
NextUpdateOnly == POSTUpdateOnly \/ GET \/ Respond

SpecUpdateOnly == InitUpdateOnly /\ [][NextUpdateOnly]_vars

\* the plan resolvers on every configuration and every pair of ids
InitResolve ==
  /\ env \in AllEnvs
  /\ store = {}
  /\ clock = 0
  /\ last = NoRequest
  /\ res = NoRes

\* the ids an event can carry: a price id and a product id of the catalogue
PriceIds   == {Price(n) : n \in 1..MaxId} \cup {Empty}
ProductIds == {Product(n) : n \in 1..ParentOf(MaxId)} \cup {Empty}

Resolve ==
  /\ res = NoRes
  /\ \E priceId \in PriceIds, productId \in ProductIds :
       res' = [priceId |-> priceId, productId |-> productId,
               plan |-> resolvePlan(priceId, productId),
               plan5 |-> resolvePlanFromSubscription(
                           <<[price |-> priceId, product |-> <<"string", productId>>]>>)]
  /\ UNCHANGED <<env, store, clock, last>>

SpecResolve == InitResolve /\ [][Resolve]_vars

\* the tokens resolvePlan may be handed in either place: any id, of any prefix
Tokens == ConfigIds

\* resolvePlan of line 154 and of line 19 on any pair of tokens
ResolveTokens ==
  /\ res = NoRes
  /\ \E priceId \in Tokens, productId \in Tokens :
       res' = [priceId |-> priceId, productId |-> productId,
               plan |-> resolvePlan(priceId, productId),
               planFirst |-> resolvePlanFirst(priceId, productId)]
  /\ UNCHANGED <<env, store, clock, last>>

SpecGating == InitResolve /\ [][ResolveTokens]_vars

-----------------------------------------------------------------------------
(* The handler of route.ts (line 209) step by step                         *)

\* POST parsing the body on receipt, before the signature is verified
PendingParsed(req) ==
  [h |-> "POST", phase |-> "Unverified", req |-> req, event |-> <<req.body>>,
   cr |-> Unused, sr |-> Unused, db |-> "unused",
   status |-> 0, calls |-> <<>>, writes |-> 0]

\* a request POST has been invoked with: no event constructed, no call made
Pending(req) ==
  [h |-> "POST", phase |-> "Unverified", req |-> req, event |-> <<>>,
   cr |-> Unused, sr |-> Unused, db |-> "unused",
   status |-> 0, calls |-> <<>>, writes |-> 0]

\* the endpoint is invoked with a request
Receive ==
  /\ Idle
  /\ \E req \in Requests : last' = Pending(req)
  /\ UNCHANGED <<env, store, clock, res>>

\* lines 210-219: the header is read, the body is read, the event constructed
VerifySignature ==
  /\ ~Idle
  /\ last.phase = "Unverified"
  /\ LET req == last.req
     IN IF ~Truthy(req.sig)
          THEN last' = [last EXCEPT !.phase = "Rejected", !.status = 400]
        ELSE LET ce == constructEvent(text(req.body), req.sig[1], env.STRIPE_WEBHOOK_SECRET)
             IN IF ce.threw
                  THEN last' = [last EXCEPT !.phase = "Rejected", !.status = 400]
                ELSE last' = [last EXCEPT !.phase = "Verified", !.event = <<ce.event>>]
  /\ UNCHANGED <<env, store, clock, res>>

\* lines 221-305: the switch on the event's type inside the try block
ResolveEvent ==
  /\ ~Idle
  /\ last.phase = "Verified"
  /\ LET event == last.event[1]
     IN \E cr \in AnswersFor(switchEventType(store, event, <<"deleted">>, <<"error">>, FALSE),
                             "customers.retrieve", CustomerResults) :
          \E sr \in AnswersFor(switchEventType(store, event, cr, <<"error">>, FALSE),
                               "subscriptions.retrieve", SubResults) :
            \E db \in StoreAnswersFor(switchEventType(store, event, cr, sr, FALSE)) :
              LET out == switchEventType(store, event, cr, sr, db = "ok")
              IN /\ store' = out.table
                 /\ last' = [last EXCEPT !.phase = "Resolved", !.cr = cr, !.sr = sr,
                                         !.db = db, !.status = out.status,
                                         !.calls = out.calls, !.writes = out.writes]
  /\ UNCHANGED <<env, clock, res>>

\* the response is sent and the invocation is over
Send ==
  /\ ~Idle
  /\ last.phase \in {"Rejected", "Resolved"}
  /\ last' = NoRequest
  /\ UNCHANGED <<env, store, clock, res>>

NextSteps == Receive \/ VerifySignature \/ ResolveEvent \/ Send

SpecSteps == Init /\ [][NextSteps]_vars

\* the runtime runs an invoked handler on, and every awaited call returns or
\* throws: each step after Receive is taken when it can be
SpecStepsFair ==
  SpecSteps /\ WF_vars(VerifySignature) /\ WF_vars(ResolveEvent) /\ WF_vars(Send)

-----------------------------------------------------------------------------
(* Two invocations of the handler of route.ts (line 209) at the same time  *)

Invocations == {1, 2}

\* an invocation that has not begun
NotBegun ==
  [h |-> "POST", pc |-> "idle", req |-> <<>>, cr |-> Unused, sr |-> Unused,
   db |-> "unused", status |-> 0, calls |-> <<>>, writes |-> 0]

\* the table is empty, or holds a row written earlier
InitRace ==
  /\ env \in EnvConfigs
  /\ store \in {{}, {[DefaultRow(<<"A">>) EXCEPT !.plan = "Elite",
                                               !.daily_comp_limit = "unlimited"]}}
  /\ clock = 0
  /\ last = [i \in Invocations |-> NotBegun]
  /\ res = NoRes

\* the deliveries that race: checkout sessions in subscription mode, with
\* the email embedded or on file with the customer
RaceRequests ==
  { req \in GenuineRequests :
      /\ req.body.type = "checkout.session.completed"
      /\ req.body.mode = "subscription"
      /\ Truthy(req.body.subscription)
      /\ ~Truthy(req.body.customer_email) }

\* the subscriptions they are for: of one line item at most
RaceSubResults ==
  { sr \in SubResults : sr = <<"error">> \/ Len(sr[2]) <= 1 }

\* invocation i is given a request and awaits the processor: lines 210-242,
\* in which the table is neither read nor written
Begin(i) ==
  /\ last[i].pc = "idle"
  /\ \E req \in RaceRequests :
       \E cr \in AnswersFor(handlePOST(store, req, <<"deleted">>, <<"error">>, FALSE),
                            "customers.retrieve", CustomerResults) :
         \E sr \in AnswersFor(handlePOST(store, req, cr, <<"error">>, FALSE),
                              "subscriptions.retrieve", RaceSubResults) :
           \E db \in StoreAnswersFor(handlePOST(store, req, cr, sr, FALSE)) :
             last' = [last EXCEPT ![i] =
                        [h |-> "POST", pc |-> "awaiting", req |-> req, cr |-> cr,
                         sr |-> sr, db |-> db, status |-> 0, calls |-> <<>>, writes |-> 0]]
  /\ UNCHANGED <<env, store, clock, res>>

\* invocation i goes on to its end: the one upsert statement, if it makes
\* one, runs on the table as it is now, and the response is sent
Finish(i) ==
  /\ last[i].pc = "awaiting"
  /\ LET l == last[i]
         out == handlePOST(store, l.req, l.cr, l.sr, l.db = "ok")
     IN /\ store' = out.table
        /\ last' = [last EXCEPT ![i] =
                      [l EXCEPT !.pc = "done", !.status = out.status,
                                !.calls = out.calls, !.writes = out.writes]]
  /\ UNCHANGED <<env, clock, res>>

NextRace == \E i \in Invocations : Begin(i) \/ Finish(i)

SpecRace == InitRace /\ [][NextRace]_vars

-----------------------------------------------------------------------------
(* Deliveries out of order: the handler of route.ts (line 209) on events   *)
(* that carry the time the processor created them                          *)

\* a checkout.session.completed event for one customer, with event.created
Dated(t) ==
  [type |-> "checkout.session.completed", id |-> <<"cs_1">>,
   customer_details_email |-> <<"A">>, customer_email |-> Empty,
   customer |-> NoCustomer, mode |-> "subscription", subscription |-> <<"sub_1">>,
   items |-> <<>>, layout |-> "pretty", created |-> t]

DatedRequests ==
  { [body |-> Dated(t), sig |-> <<Sign(Dated(t), WebhookSecret)>>] : t \in 1..MaxCreated }

\* the handler serves a dated event; res keeps the creation time and the
\* plan of the event whose write was committed last, and those of the one
\* committed before it
POSTDated ==
  /\ Idle
  /\ \E req \in DatedRequests : Serve("POST", req)
  /\ res' = IF last'.writes = 1 /\ last'.db = "ok"
              THEN [created |-> last'.req.body.created,
                    plan |-> resolvePlan(firstItemIds(last'.sr[2]).priceId,
                                         firstItemIds(last'.sr[2]).productId).plan,
                    before |-> IF res = NoRes THEN <<>> ELSE <<res.created, res.plan>>]
              ELSE res
  /\ UNCHANGED <<env, clock>>

NextOrder == POSTDated \/ Respond

SpecOrder == Init /\ [][NextOrder]_vars

-----------------------------------------------------------------------------
(* The checkout endpoints: src/app/api/checkout/[plan]/route.ts and        *)
(* src/app/api/create-checkout-session/route.ts                            *)

\* the plan names a visitor asks for
PlanNames ==
  {Empty, Str_basic, Str_pro, Str_elite, <<"P", "r", "o">>, <<"g", "o", "l", "d">>}

\* PLAN_TO_PRICE[plan] and PLAN_TO_ID[plan]: undefined for any other key
PLAN_TO_PRICE(plan) ==
  IF plan = Str_basic THEN env.PRICE_BASIC
  ELSE IF plan = Str_pro THEN env.PRICE_PRO
  ELSE IF plan = Str_elite THEN env.PRICE_ELITE
  ELSE Empty

\* what stripe.checkout.sessions.create answers for a line item: no session
\* for a price the processor does not have
SessionUrl == <<"https://checkout.stripe.com/c/pay/cs_1">>

CreateResults(price) ==
  IF startsWith(price, "price_") THEN {<<"error">>, <<"session", SessionUrl>>}
  ELSE {<<"error">>}

\* what stripe.prices.list answers: an error, no monthly price, or one
PricesResults == {<<"error">>, <<"none">>, <<"monthly", Price(1)>>}

\* the response of a checkout endpoint and the calls it made
Reply(status, location, calls) == [status |-> status, location |-> location, calls |-> calls]

DefaultCancel == <<"https://landlogiq.com/pricing">>

\* GET of checkout/[plan]/route.ts
checkoutAliasGET(planParam, created) ==
  IF ~Truthy(env.STRIPE_SECRET_KEY) THEN Reply(500, Empty, <<>>)
  ELSE LET plan == toLowerCase(planParam)
           price == PLAN_TO_PRICE(plan)
       IN IF ~Truthy(price)
            THEN Reply(302, Or(env.CANCEL_URL, DefaultCancel), <<>>)
          ELSE IF created = <<"error">>
            THEN Reply(500, Empty, <<"checkout.sessions.create">>)
          ELSE Reply(303, created[2], <<"checkout.sessions.create">>)

\* resolveLineItem of create-checkout-session/route.ts: the price of the
\* line item, or a throw
resolveLineItem(id, listed) ==
  IF ~Truthy(id) THEN Ret(Empty, TRUE, <<>>)
  ELSE IF startsWith(id, "price_") THEN Ret(id, FALSE, <<>>)
  ELSE IF startsWith(id, "prod_")
    THEN IF listed = <<"error">> THEN Ret(Empty, TRUE, <<"prices.list">>)
         ELSE IF listed = <<"none">> THEN Ret(Empty, TRUE, <<"prices.list">>)
         ELSE Ret(listed[2], FALSE, <<"prices.list">>)
  ELSE Ret(Empty, TRUE, <<>>)

\* GET of create-checkout-session/route.ts
createCheckoutSessionGET(planParam, listed, created) ==
  LET plan == toLowerCase(planParam)
  IN IF plan \notin {Str_basic, Str_pro, Str_elite} THEN Reply(400, Empty, <<>>)
     ELSE LET lineItem == resolveLineItem(PLAN_TO_PRICE(plan), listed)
          IN IF lineItem.threw THEN Reply(500, Empty, lineItem.calls)
             ELSE IF created = <<"error">>
               THEN Reply(500, Empty, lineItem.calls \o <<"checkout.sessions.create">>)
             ELSE Reply(303, created[2], lineItem.calls \o <<"checkout.sessions.create">>)

\* CANCEL_URL set as in the README, or left unset
InitCheckout ==
  /\ env \in {[e EXCEPT !.CANCEL_URL = c] :
                e \in EnvConfigs, c \in {Empty, <<"http://localhost:3000/cancel">>}}
  /\ store = {}
  /\ clock = 0
  /\ last = NoRequest
  /\ res = NoRes

\* the request and the response of a checkout endpoint
Visit(h, plan, listed, created, reply) ==
  [h |-> h, req |-> [plan |-> plan], cr |-> listed, sr |-> created, db |-> "unused",
   status |-> reply.status, calls |-> reply.calls, writes |-> 0,
   location |-> reply.location]

\* a visitor opens /api/checkout/<plan>
CheckoutAlias ==
  /\ Idle
  /\ \E plan \in PlanNames :
       LET price == PLAN_TO_PRICE(toLowerCase(plan))
       IN \E created \in AnswersFor(checkoutAliasGET(plan, <<"error">>),
                                     "checkout.sessions.create", CreateResults(price)) :
            last' = Visit("checkout/[plan]", plan, Unused, created,
                          checkoutAliasGET(plan, created))
  /\ UNCHANGED <<env, store, clock, res>>

\* a visitor opens /api/create-checkout-session?plan=<plan>
CreateCheckoutSession ==
  /\ Idle
  /\ \E plan \in PlanNames :
       \E listed \in AnswersFor(createCheckoutSessionGET(plan, <<"error">>, <<"error">>),
                                "prices.list", PricesResults) :
         LET item == resolveLineItem(PLAN_TO_PRICE(toLowerCase(plan)), listed)
         IN \E created \in AnswersFor(createCheckoutSessionGET(plan, listed, <<"error">>),
                                       "checkout.sessions.create", CreateResults(item.value)) :
              last' = Visit("create-checkout-session", plan, listed, created,
                            createCheckoutSessionGET(plan, listed, created))
  /\ UNCHANGED <<env, store, clock, res>>

NextCheckout == CheckoutAlias \/ CreateCheckoutSession \/ Respond

SpecCheckout == InitCheckout /\ [][NextCheckout]_vars

-----------------------------------------------------------------------------
(* Vocabulary of the properties                                            *)

WebhookHandlers ==
  {"POST", "POSTFirst", "POSTStamped", "POSTPriceOnly", "POSTRefetch", "POSTUpdateOnly"}

\* the signature header is missing, made with another secret, or made over
\* another body
BadSignature(req) ==
  \/ req.sig = Empty
  \/ req.sig[1].secret # env.STRIPE_WEBHOOK_SECRET
  \/ req.sig[1].signed # req.body

\* the last request was a webhook delivery that passed verification
Verified == last.h \in WebhookHandlers /\ ~BadSignature(last.req)

\* the event of the last request
Ev == last.req.body

\* what handling the request of l once more, with the processor answering
\* as before and the store available, would answer and leave
Redeliver(l) ==
  IF l.h = "GET" THEN adminSetPlan(store, l.req, TRUE)
  ELSE webhook(l.h, store, l.req, l.cr, l.sr, TRUE)

\* the rows of a table for an email
RowsOf(table, email) == {r \in table : r.email = email}

\* the subscription was fetched and answered
Fetched == last.sr # Unused /\ last.sr # <<"error">>

\* the ids of the first line item of the subscription that was fetched
FetchedIds == firstItemIds(last.sr[2])

\* no configured id is one of the two ids
MatchesNothing(ids) ==
  \A i \in 1..Len(Labels) :
    \/ ~Truthy(ENV_IDS(Labels[i]))
    \/ ENV_IDS(Labels[i]) \notin {ids.priceId, ids.productId}

\* the event carries no email and refers to no customer
NoEmailNoCustomer(ev) ==
  /\ ~Truthy(ev.customer_details_email)
  /\ ~Truthy(ev.customer_email)
  /\ ~Truthy(ev.customer)

Is4xx(status) == status >= 400 /\ status <= 499
Is5xx(status) == status >= 500 /\ status <= 599
Is2xx(status) == status >= 200 /\ status <= 299

\* a call to the processor's API was made and failed
ProcessorCallFailed(l) == l.cr = <<"error">> \/ l.sr = <<"error">>

Actionable ==
  {"checkout.session.completed", "customer.subscription.created",
   "invoice.payment_succeeded"}

-----------------------------------------------------------------------------
(* Properties                                                              *)

\* C1: the State Writer is idempotent: after a webhook delivery has written
\* its row, writing the same (email, plan, limit) decision once more (the
\* same request handled again with the same answers) leaves the table
\* exactly as it is.
C1_ApplyTwiceIsApplyOnce ==
  (last.h \in WebhookHandlers /\ last.writes = 1 /\ last.db = "ok")
    => Redeliver(last).table = store

\* C2: a request whose signature header is missing, wrong or made over
\* another body is answered 4xx, and handling it writes nothing to the
\* store and calls the processor's API not once.
C2_SignatureGate ==
  [][ (Idle /\ last'.h = "POST" /\ BadSignature(last'.req))
        => /\ Is4xx(last'.status)
           /\ last'.writes = 0
           /\ last'.calls = <<>>
           /\ store' = store ]_vars

\* C2 witness: a request whose body was changed after signing was rejected
C2_Witness ==
  /\ last.h = "POST"
  /\ last.req.sig # Empty
  /\ last.req.sig[1].secret = env.STRIPE_WEBHOOK_SECRET
  /\ last.req.sig[1].signed # last.req.body
  /\ last.status = 400

\* C3: a verified event with an unhandled type, or with no email to be
\* resolved, or with ids that match no mapping entry, is skipped: the
\* answer is 200 and nothing is written.
C3_SkipNotFail ==
  (/\ last.h = "POST"
   /\ Verified
   /\ \/ Ev.type \notin {"checkout.session.completed", "customer.subscription.created",
                         "invoice.payment_succeeded"}
      \/ NoEmailNoCustomer(Ev)
      \/ (Fetched /\ MatchesNothing(FetchedIds)))
    => (last.status = 200 /\ last.writes = 0)

\* C4: the table holds at most one row for an email, and delivering an
\* event again (or repeating an admin override) leaves the table as it is.
C4_OneRowPerEmail ==
  /\ \A r1 \in store : \A r2 \in store : r1.email = r2.email => r1 = r2
  /\ (last.h \in {"POST", "GET"} /\ last.writes = 1 /\ last.db = "ok")
       => Redeliver(last).table = store

\* C4 witness: a delivery wrote a row into a table that holds two rows
C4_Witness ==
  /\ last.h = "POST"
  /\ last.writes = 1
  /\ last.db = "ok"
  /\ Cardinality(store) = 2

\* the email the handler of route.ts resolves for a request and the answers
\* it got: the embedded email, else the legacy field, else the customer's
ResolvedEmail(l) ==
  LET ev == l.req.body
      embedded == Or(ev.customer_details_email, ev.customer_email)
  IN IF Truthy(embedded) THEN embedded
     ELSE IF ~Truthy(ev.customer) THEN Empty
     ELSE IF ev.customer[1] = "object" THEN ev.customer[2]
     ELSE IF l.cr \in {Unused, <<"error">>, <<"deleted">>} THEN Empty
     ELSE l.cr[2]

\* the ids the plan is resolved from: of the fetched subscription, or of the
\* subscription the event embeds
EventIds(l) ==
  IF l.req.body.type = "customer.subscription.created" THEN firstItemIds(l.req.body.items)
  ELSE IF l.sr \in {Unused, <<"error">>} THEN NoIds
  ELSE firstItemIds(l.sr[2])

\* C5: when the store write fails the answer is 5xx and the table is as it
\* was; the same event delivered again with the store available is
\* answered 200 and leaves exactly one row for the email, with the mapped
\* plan and limit.
C5_RetryConverges ==
  [][ (Idle /\ last'.h = "POST" /\ last'.db = "error")
        => /\ Is5xx(last'.status)
           /\ store' = store
           /\ LET again   == handlePOST(store', last'.req, last'.cr, last'.sr, TRUE)
                  ids     == EventIds(last')
                  mapping == resolvePlan(ids.priceId, ids.productId)
                  rows    == RowsOf(again.table, ResolvedEmail(last'))
              IN /\ again.status = 200
                 /\ Cardinality(rows) = 1
                 /\ \A r \in rows :
                      r.plan = mapping.plan /\ r.daily_comp_limit = mapping.limit
                 /\ mapping \in PlanInfos ]_vars

\* C5 witness: a delivery whose store write failed was answered 500 while
\* the email has no row
C5_Witness ==
  /\ last.h = "POST"
  /\ last.db = "error"
  /\ last.status = 500
  /\ RowsOf(store, ResolvedEmail(last)) = {}

\* the plan whose configured id is the price id, when the resolver answers it
MatchedByPrice(info, priceId) ==
  /\ info # undefined
  /\ \E i \in 1..Len(Labels) : Labels[i] = info.plan /\ ENV_IDS(Labels[i]) = priceId

\* C6: when the price id is the configured id of one plan and the product id
\* the configured id of another, plan resolution answers the plan of the
\* price id (resolvePlan of route.ts and resolvePlanFromSubscription of
\* part_005).
C6_PricePrecedesProduct ==
  (/\ res # NoRes
   /\ Truthy(res.priceId)
   /\ Truthy(res.productId)
   /\ \E i \in 1..Len(Labels), j \in 1..Len(Labels) :
        /\ i # j
        /\ ENV_IDS(Labels[i]) = res.priceId
        /\ ENV_IDS(Labels[j]) = res.productId)
    => /\ MatchedByPrice(res.plan, res.priceId)
       /\ MatchedByPrice(res.plan5, res.priceId)

\* C7: a verified checkout.session.completed event whose subscription's
\* price and product ids match nothing in the mapping is answered 200 and
\* nothing is written, with an email resolved or not (both handlers of
\* route.ts).
C7_UnmappedMeansNoWrite ==
  (/\ last.h \in {"POST", "POSTFirst"}
   /\ Verified
   /\ Ev.type = "checkout.session.completed"
   /\ Fetched
   /\ MatchesNothing(FetchedIds))
    => (last.status = 200 /\ last.writes = 0 /\ last.db = "unused")

\* C8: every row of the table pairs its plan with the plan's limit: (Basic,
\* "10"), (Pro, "30") or (Elite, "unlimited"); no row is without a plan.
C8_PlanLimitPairs ==
  \A r \in store :
    [plan |-> r.plan, limit |-> r.daily_comp_limit] \in PlanInfos

\* C9: one casing of the email is used at every write: two rows never
\* differ in their emails by letter case only.
C9_OneCasing ==
  \A r1 \in store : \A r2 \in store :
    toLowerCase(r1.email) = toLowerCase(r2.email) => r1.email = r2.email

\* C10: a verified checkout.session.completed event in subscription mode
\* with an embedded email e, whose subscription's first item has the price
\* id configured for plan P (and for no other plan), handled with the store
\* available, is answered 200 and leaves the row (e, P, limit(P)).
C10_ApplyResult ==
  \A i \in 1..Len(Labels) :
    (/\ last.h = "POST"
     /\ Verified
     /\ Ev.type = "checkout.session.completed"
     /\ Ev.mode = "subscription"
     /\ Truthy(Ev.customer_details_email)
     /\ Fetched
     /\ Truthy(FetchedIds.priceId)
     /\ ENV_IDS(Labels[i]) = FetchedIds.priceId
     /\ \A j \in 1..Len(Labels) : ENV_IDS(Labels[j]) = FetchedIds.priceId => j = i
     /\ last.db # "error")
      => /\ last.status = 200
         /\ \E r \in store :
              /\ r.email = Ev.customer_details_email
              /\ r.plan = PlanInfo(Labels[i]).plan
              /\ r.daily_comp_limit = PlanInfo(Labels[i]).limit

\* C11: when the store write returns an error the answer is 5xx, and a
\* verified event is answered with a status outside 2xx only when the store
\* write or a call to the processor's API failed.
C11_OnlyFailIsNon2xx ==
  /\ (last.h = "POST" /\ last.db = "error") => Is5xx(last.status)
  /\ (last.h = "POST" /\ Verified /\ ~Is2xx(last.status))
       => (last.db = "error" \/ ProcessorCallFailed(last))

\* C11 witness: a verified event whose store write failed was answered 500
C11_Witness ==
  /\ last.h = "POST"
  /\ Verified
  /\ last.db = "error"
  /\ last.status = 500
  /\ ~ProcessorCallFailed(last)

\* C12: for a verified event of a kind the handler acts on, when the call
\* that fetches the subscription or the customer fails, the answer is 5xx
\* and nothing is written to the store.
C12_FetchErrorIsFail ==
  [][ (/\ Idle
       /\ last'.h = "POST"
       /\ ~BadSignature(last'.req)
       /\ last'.req.body.type \in Actionable
       /\ ProcessorCallFailed(last'))
        => /\ Is5xx(last'.status)
           /\ last'.writes = 0
           /\ last'.db = "unused"
           /\ store' = store ]_vars

\* C12 witness: the subscription fetch failed after the customer lookup
\* answered an email, and the event was answered 500
C12_Witness ==
  /\ last.h = "POST"
  /\ Verified
  /\ last.cr = <<"customer", <<"A">>>>
  /\ last.sr = <<"error">>
  /\ last.status = 500

\* C13: when the variable of a plan is not set, every verified event whose
\* subscription is on the price of that plan is answered 5xx (stated for the
\* events that carry a resolvable email, which no other rule skips).
C13_AbsentConfigIsFail ==
  \A i \in 1..Len(Labels) :
    (/\ last.h = "POST"
     /\ Verified
     /\ Ev.type \in Actionable
     /\ Truthy(ResolvedEmail(last))
     /\ ~Truthy(ENV_IDS(Labels[i]))
     /\ EventIds(last).priceId = PlanPrice(i))
      => Is5xx(last.status)

\* C14: the body handed to the signature verification is the body as it
\* was received: a request whose signature was made with the secret over
\* the body received is never rejected.
C14_VerifiesReceivedBytes ==
  (last.h = "POST" /\ ~BadSignature(last.req)) => ~Is4xx(last.status)

\* C14 witness: a delivery in the processor's indented layout passed the
\* verification and its row was written
C14_Witness ==
  /\ last.h = "POST"
  /\ Verified
  /\ Ev.layout = "pretty"
  /\ last.status = 200
  /\ last.writes = 1

\* where a request stands in the handler
PhaseOf(l) == IF l.h = "none" THEN "Idle" ELSE l.phase

PhaseOrder ==
  { <<"Idle", "Unverified">>, <<"Unverified", "Verified">>, <<"Unverified", "Rejected">>,
    <<"Verified", "Resolved">>, <<"Rejected", "Idle">>, <<"Resolved", "Idle">> }

\* C15: a request goes Unverified -> Verified -> Resolved or Unverified ->
\* Rejected; nothing follows Rejected but the response (a 4xx); while a
\* request is Unverified or Rejected no event has been constructed from it,
\* no call to the processor has been made and nothing has been written.
C15_EndpointOrder ==
  [][ /\ <<PhaseOf(last), PhaseOf(last')>> \in PhaseOrder
      /\ PhaseOf(last') \in {"Unverified", "Rejected"}
           => /\ last'.event = <<>>
              /\ last'.calls = <<>>
              /\ last'.writes = 0
              /\ store' = store
      /\ PhaseOf(last') = "Rejected" => Is4xx(last'.status)
      /\ PhaseOf(last') = "Verified" => store' = store /\ last'.calls = <<>> ]_vars

\* C15 witness: a request was verified and resolved, with a call to the
\* processor and a write to the store
C15_Witness ==
  /\ PhaseOf(last) = "Resolved"
  /\ last.calls # <<>>
  /\ last.writes = 1
  /\ last.status = 200

\* the event of the last request is one to apply: its email was resolved and
\* a configured id is one of the ids of its subscription
Applicable ==
  /\ Verified
  /\ Ev.type \in Actionable
  /\ ~ProcessorCallFailed(last)
  /\ Truthy(ResolvedEmail(last))
  /\ ~MatchesNothing(EventIds(last))

\* C16: a verified event that is to be applied is answered 200 only when the
\* store write was made and returned no error, and the row is in the table.
C16_AckAfterWrite ==
  (last.h = "POST" /\ Applicable /\ last.status = 200)
    => /\ last.writes = 1
       /\ last.db = "ok"
       /\ \E r \in store :
            /\ r.email = ResolvedEmail(last)
            /\ [plan |-> r.plan, limit |-> r.daily_comp_limit] \in PlanInfos

\* C16 witness: an invoice event was applied and answered 200
C16_Witness ==
  /\ last.h = "POST"
  /\ Applicable
  /\ Ev.type = "invoice.payment_succeeded"
  /\ last.status = 200
  /\ last.db = "ok"

\* the event types a handler acts on
ActsOn(h) ==
  IF h = "POST" THEN Actionable ELSE {"checkout.session.completed"}

\* C17: a verified event of a type the handler does not act on is answered
\* 200; the handler calls the processor not once, writes nothing, and the
\* table is as it was (the handler of route.ts and the one of part_006).
C17_UnhandledIsInert ==
  [][ (/\ Idle
       /\ last'.h \in {"POST", "POSTPriceOnly"}
       /\ ~BadSignature(last'.req)
       /\ last'.req.body.type \notin ActsOn(last'.h))
        => /\ last'.status = 200
           /\ last'.calls = <<>>
           /\ last'.writes = 0
           /\ last'.db = "unused"
           /\ store' = store ]_vars

\* C17 witness: an event of another type, naming a customer, was answered
\* 200 by the handler of route.ts while the table holds a row
C17_Witness ==
  /\ last.h = "POST"
  /\ Verified
  /\ Ev.type \notin Actionable
  /\ Truthy(Ev.customer)
  /\ last.status = 200
  /\ store # {}

\* the email of a checkout session by the order of the fields: the
\* customer_details email, else the customer_email field, else the email the
\* lookup of the customer answered
EmailByOrder(l) ==
  LET session == l.req.body
  IN IF Truthy(session.customer_details_email) THEN session.customer_details_email
     ELSE IF Truthy(session.customer_email) THEN session.customer_email
     ELSE IF l.cr \in {Unused, <<"error">>, <<"deleted">>} THEN Empty
     ELSE l.cr[2]

\* C18: for checkout.session.completed the email is customer_details.email
\* when not empty, else customer_email when not empty, else the email on
\* file of the customer looked up; the customer is looked up only when both
\* fields are empty, and the row written is the row of that email.
C18_IdentityOrder ==
  [][ (/\ Idle
       /\ last'.h = "POST"
       /\ ~BadSignature(last'.req)
       /\ last'.req.body.type = "checkout.session.completed")
        => LET session == last'.req.body
               bothEmpty == /\ ~Truthy(session.customer_details_email)
                            /\ ~Truthy(session.customer_email)
           IN /\ Called(last'.calls, "customers.retrieve")
                   <=> (bothEmpty /\ Truthy(session.customer))
              /\ (last'.writes = 1 /\ last'.db = "ok")
                   => /\ Truthy(EmailByOrder(last'))
                      /\ RowsOf(store', EmailByOrder(last')) # {}
                      /\ \A r \in store' \ store : r.email = EmailByOrder(last')
              /\ (/\ Truthy(EmailByOrder(last'))
                  /\ ~ProcessorCallFailed(last')
                  /\ ~MatchesNothing(EventIds(last')))
                   => last'.writes = 1 ]_vars

\* C18 witness: a session with both fields set was written under
\* customer_details.email, and no row has the email of customer_email
C18_Witness ==
  /\ last.h = "POST"
  /\ Verified
  /\ Ev.type = "checkout.session.completed"
  /\ last.writes = 1
  /\ last.db = "ok"
  /\ Truthy(Ev.customer_details_email)
  /\ Truthy(Ev.customer_email)
  /\ \E r \in store : r.email = <<"A">>
  /\ ~\E r \in store : r.email = <<"a">>

\* C19: a verified event of a kind the handler acts on, for which no email
\* is resolved (no embedded email and no customer, or a customer deleted or
\* without email), is answered 200 and nothing is written, whether the
\* fetch of the subscription would succeed or fail.
C19_NoEmailSkipsFirst ==
  (/\ last.h = "POST"
   /\ Verified
   /\ Ev.type \in Actionable
   /\ last.cr # <<"error">>
   /\ ~Truthy(ResolvedEmail(last)))
    => (last.status = 200 /\ last.writes = 0)

\* the columns of a row other than its key, its plan and its limit
OtherColumns(r) ==
  <<r.stripe_customer_id, r.stripe_subscription_id, r.last_checkout_session_id,
    r.updated_at>>

\* C20: a delivery that writes leaves exactly one row for the event's email,
\* leaves every row of another email as it was, and on a row that was there
\* changes no column but plan and limit.
C20_ApplyFrame ==
  [][ (/\ Idle
       /\ last'.h \in WebhookHandlers
       /\ last'.writes = 1
       /\ last'.db = "ok")
        => LET email == ResolvedEmail(last')
           IN /\ Cardinality(RowsOf(store', email)) = 1
              /\ \A r \in store : r.email # email => r \in store'
              /\ \A r \in store' : r.email # email => r \in store
              /\ \A r \in RowsOf(store, email) : \A w \in RowsOf(store', email) :
                   OtherColumns(w) = OtherColumns(r) ]_vars

\* the row invocation i writes when it runs alone
RowAlone(i) ==
  RowsOf(handlePOST({}, last[i].req, last[i].cr, last[i].sr, TRUE).table,
         ResolvedEmail(last[i]))

\* invocation i has written its row
Wrote(i) == last[i].pc = "done" /\ last[i].writes = 1 /\ last[i].db = "ok"

\* C21: an invocation makes one upsert and what it does never depends on
\* the table it finds; when two invocations for one email ran at the same
\* time and both wrote, the table holds exactly one row for the email, with
\* the plan and limit one of the two writes alone.
C21_RaceLeavesOneRow ==
  /\ \A i \in Invocations :
       last[i].pc # "idle"
         => LET l == last[i]
                here  == handlePOST(store, l.req, l.cr, l.sr, l.db = "ok")
                alone == handlePOST({}, l.req, l.cr, l.sr, l.db = "ok")
            IN /\ here.status = alone.status
               /\ here.writes = alone.writes
               /\ here.calls = alone.calls
               /\ here.writes <= 1
  /\ (Wrote(1) /\ Wrote(2) /\ ResolvedEmail(last[1]) = ResolvedEmail(last[2]))
       => LET rows == RowsOf(store, ResolvedEmail(last[1]))
          IN /\ Cardinality(rows) = 1
             /\ \A r \in rows : \E i \in Invocations : \E a \in RowAlone(i) :
                  r.plan = a.plan /\ r.daily_comp_limit = a.daily_comp_limit

\* C21 witness: two invocations for one email, resolving different plans,
\* have both written
C21_Witness ==
  /\ Wrote(1)
  /\ Wrote(2)
  /\ ResolvedEmail(last[1]) = ResolvedEmail(last[2])
  /\ RowAlone(1) # RowAlone(2)

\* the entries of the mapping a token is the configured id of
EntriesOf(token) == {i \in 1..Len(Labels) : ENV_IDS(Labels[i]) = token}

\* C22: the mapping has one entry for each plan, and a price or product
\* token the mapping knows is the configured id of exactly one plan: no
\* token belongs to two plans.
C22_MappingTotal ==
  res # NoRes
    => \A token \in {res.priceId, res.productId} :
         (Truthy(token) /\ EntriesOf(token) # {} /\ res.plan # undefined)
           => Cardinality(EntriesOf(token)) = 1

\* the emails a table has a row for
EmailsOf(table) == {r.email : r \in table}

\* C23: no webhook delivery and no admin override removes a row: the set of
\* emails in the table only grows.
C23_NeverDeleted ==
  [][ /\ EmailsOf(store) \subseteq EmailsOf(store')
      /\ Cardinality(store') >= Cardinality(store) ]_vars

\* C23 witness: an admin override wrote into a table that keeps the row of
\* a webhook delivery
C23_Witness ==
  /\ last.h = "GET"
  /\ last.writes = 1
  /\ last.db = "ok"
  /\ \E r \in store : r.email = <<"A">>
  /\ \E r \in store : r.email = <<"a">>

\* the admin secrets the deployment is configured with, under either name
ConfiguredSecrets ==
  {env.ADMIN_PLAN_SECRET, env.ADMIN_SET_PLAN_SECRET} \ {Empty}

\* the secrets a request to the admin endpoint carries
CarriedSecrets(req) == {req.secret, req.x_admin_secret} \ {Empty}

C25_DocumentedAdminCall ==
  (/\ last.h = "GET"
   /\ last.req \in DocumentedCalls
   /\ Truthy(env.ADMIN_SET_PLAN_SECRET)
   /\ last.req.secret = env.ADMIN_SET_PLAN_SECRET
   /\ last.db # "error")
    => /\ last.status = 200
       /\ \E r \in store :
            /\ r.email = last.req.body_email
            /\ r.plan = PLAN_LIMIT(toLowerCase(last.req.body_plan)).plan
            /\ r.daily_comp_limit = PLAN_LIMIT(toLowerCase(last.req.body_plan)).limit

CheckoutEndpoints == {"checkout/[plan]", "create-checkout-session"}

\* the plan asked for has a configured id
PlanConfigured(plan) == Truthy(PLAN_TO_PRICE(toLowerCase(plan)))

\* C26: for a plan name with no configured id a checkout endpoint creates no
\* checkout session and redirects to the fallback URL; for a configured plan
\* whose session the processor creates it redirects to the session's page
\* (both checkout endpoints).
C26_CheckoutRedirects ==
  last.h \in CheckoutEndpoints
    => /\ ~PlanConfigured(last.req.plan)
            => /\ last.status = 302
               /\ last.location = Or(env.CANCEL_URL, DefaultCancel)
               /\ ~Called(last.calls, "checkout.sessions.create")
       /\ (PlanConfigured(last.req.plan) /\ last.sr \notin {Unused, <<"error">>})
            => /\ last.status = 303
               /\ last.location = last.sr[2]

\* C27: when the event embeds no email and the customer it names is marked
\* deleted, no email is resolved and the event is answered 200 with nothing
\* written.
C27_DeletedCustomerSkips ==
  (/\ last.h = "POST"
   /\ Verified
   /\ Ev.type \in Actionable
   /\ last.cr = <<"deleted">>)
    => (last.status = 200 /\ last.writes = 0)

\* a sequence of line items cut down to its first
FirstOf(items) == IF items = <<>> THEN <<>> ELSE <<items[1]>>

\* the delivery of l with every line item but the first taken away, from
\* the subscription fetched and from the subscription embedded
FirstItemOnly(l) ==
  LET body == [l.req.body EXCEPT !.items = FirstOf(@)]
  IN [l EXCEPT !.req = [body |-> body, sig |-> <<Sign(body, WebhookSecret)>>],
               !.sr = IF l.sr \in {Unused, <<"error">>} THEN l.sr
                      ELSE <<"subscription", FirstOf(l.sr[2])>>]

\* the subscription of the delivery was read and has no line item
ZeroItems(l) ==
  IF l.req.body.type = "customer.subscription.created" THEN l.req.body.items = <<>>
  ELSE l.sr \notin {Unused, <<"error">>} /\ l.sr[2] = <<>>

C29_EmbeddedNeedsNoFetch ==
  (/\ last.h \in {"POST", "POSTRefetch"}
   /\ Verified
   /\ Ev.type = "customer.subscription.created")
    => /\ ~Called(last.calls, "subscriptions.retrieve")
       /\ last.sr = Unused

\* the email the update-only handler has for a session: the one embedded,
\* else the customer's (subscription mode) or the retrieved session's
EmailUpdateOnly(l) ==
  LET session == l.req.body
  IN IF Truthy(session.customer_details_email) THEN session.customer_details_email
     ELSE IF Called(l.calls, "checkout.sessions.retrieve") THEN l.sr[3]
     ELSE IF l.cr \in {Unused, <<"error">>, <<"deleted">>} THEN Empty
     ELSE l.cr[2]

\* C30: the update-only handler, given a verified event to apply, creates no
\* row: for an email without a row the table is left as it is and the answer
\* is 200; on the row of an email that has one, only plan and limit change.
C30_UpdateOnly ==
  [][ (/\ Idle
       /\ last'.h = "POSTUpdateOnly"
       /\ ~BadSignature(last'.req)
       /\ last'.writes = 1
       /\ last'.db = "ok")
        => LET email == EmailUpdateOnly(last')
           IN /\ last'.status = 200
              /\ EmailsOf(store') = EmailsOf(store)
              /\ Cardinality(store') = Cardinality(store)
              /\ RowsOf(store, email) = {} => store' = store
              /\ \A r \in store : r.email # email => r \in store'
              /\ \A r \in RowsOf(store, email) : \A w \in RowsOf(store', email) :
                   /\ OtherColumns(w) = OtherColumns(r)
                   /\ [plan |-> w.plan, limit |-> w.daily_comp_limit] \in PlanInfos ]_vars

\* C30 witness: an event to apply, for an email that has no row, was
\* answered 200 and the table holds no row for it
C30_Witness ==
  /\ last.h = "POSTUpdateOnly"
  /\ Verified
  /\ last.writes = 1
  /\ last.db = "ok"
  /\ last.status = 200
  /\ Truthy(EmailUpdateOnly(last))
  /\ RowsOf(store, EmailUpdateOnly(last)) = {}
  /\ store # {}

\* the request carries the secret the admin handler reads
Authorised(req) ==
  /\ req.method = "GET"
  /\ Truthy(Or(req.secret, req.x_admin_secret))
  /\ Or(req.secret, req.x_admin_secret) = env.ADMIN_PLAN_SECRET

\* the plan a plan key names, undefined for any key but basic, pro, elite
PlanOfKey(key) ==
  IF key = <<"b", "a", "s", "i", "c">> THEN PlanInfo("Basic")
  ELSE IF key = <<"p", "r", "o">> THEN PlanInfo("Pro")
  ELSE IF key = <<"e", "l", "i", "t", "e">> THEN PlanInfo("Elite")
  ELSE undefined

\* C31: an authorised admin request with an empty email, or with a plan
\* that after trimming and lower-casing is not basic, pro or elite, is
\* answered 400 and nothing is written; an authorised valid one upserts the
\* row of the trimmed lower-cased email with the plan and its limit, and is
\* answered 500, with the table as it was, when the store fails.
C31_AdminValidation ==
  [][ (Idle /\ last'.h = "GET" /\ Authorised(last'.req))
        => LET email == toLowerCase(trim(last'.req.email))
               info == PlanOfKey(toLowerCase(trim(last'.req.plan)))
           IN IF email = Empty \/ info = undefined
                THEN /\ last'.status = 400
                     /\ last'.writes = 0
                     /\ store' = store
              ELSE IF last'.db = "error"
                THEN last'.status = 500 /\ last'.writes = 1 /\ store' = store
              ELSE /\ last'.status = 200
                   /\ last'.writes = 1
                   /\ \E w \in store' :
                        /\ RowsOf(store', email) = {w}
                        /\ w.plan = info.plan
                        /\ w.daily_comp_limit = info.limit
                        /\ \A r \in RowsOf(store, email) :
                             OtherColumns(w) = OtherColumns(r)
                   /\ \A r \in store : r.email # email => r \in store'
                   /\ EmailsOf(store') = EmailsOf(store) \cup {email} ]_vars

\* C31 witness: an authorised request with a blank email and a valid plan
\* was answered 400 while the table holds a row an earlier valid request
\* wrote
C31_Witness ==
  /\ last.h = "GET"
  /\ Authorised(last.req)
  /\ last.req.email = <<" ">>
  /\ PlanOfKey(toLowerCase(trim(last.req.plan))) # undefined
  /\ last.status = 400
  /\ \E r \in store : r.email = <<"a">> /\ r.plan = "Elite"

\* C32: the handler compares no event id and no creation time: whenever a
\* delivery commits its write, whatever was committed before and whichever
\* of the two events is the older, the table holds exactly one row for the
\* email, with the plan of the event just written and the limit of that
\* plan.
C32_LastCommitWins ==
  [][ (/\ Idle
       /\ last'.h = "POST"
       /\ ~BadSignature(last'.req)
       /\ last'.writes = 1
       /\ last'.db = "ok")
        => LET email == ResolvedEmail(last')
               ids == EventIds(last')
               info == resolvePlan(ids.priceId, ids.productId)
           IN /\ info \in PlanInfos
              /\ \E w \in store' :
                   /\ RowsOf(store', email) = {w}
                   /\ w.plan = info.plan
                   /\ w.daily_comp_limit = info.limit ]_vars

\* C32 witness: the event created first was delivered after the one created
\* later, for another plan, and the row holds the plan of the older event
C32_Witness ==
  /\ res # NoRes
  /\ res.before # <<>>
  /\ res.before[1] > res.created
  /\ res.before[2] # res.plan
  /\ \E w \in store : RowsOf(store, <<"A">>) = {w} /\ w.plan = res.plan

\* the event is a checkout that is not for a subscription
NonSubscription(ev) ==
  /\ ev.type = "checkout.session.completed"
  /\ ev.mode # "subscription" \/ ev.subscription = NoSubscription

\* C33 as stated: a verified checkout that is not for a subscription is
\* answered 200 with no subscription fetched and nothing written.
C33_AsStated ==
  (last.h = "POST" /\ Verified /\ NonSubscription(Ev))
    => /\ ~Called(last.calls, "subscriptions.retrieve")
       /\ last.writes = 0
       /\ last.status = 200

\* C33, amended: for a verified checkout that is not for a subscription the
\* handler of route.ts fetches no subscription, writes nothing and leaves
\* the table as it was; it answers 200 unless the customer lookup, made when
\* no email is embedded, threw, and then it answers 500.
C33_NonSubscriptionSkipped ==
  [][ (/\ Idle
       /\ last'.h = "POST"
       /\ ~BadSignature(last'.req)
       /\ NonSubscription(last'.req.body))
        => /\ ~Called(last'.calls, "subscriptions.retrieve")
           /\ last'.sr = Unused
           /\ last'.writes = 0
           /\ store' = store
           /\ last'.status = IF last'.cr = <<"error">> THEN 500 ELSE 200 ]_vars

\* C33 witness: a payment-mode checkout whose email came from the customer
\* lookup was answered 200 with nothing written, the table holding a row
C33_Witness ==
  /\ last.h = "POST"
  /\ Verified
  /\ NonSubscription(Ev)
  /\ Ev.mode = "payment"
  /\ last.cr = <<"customer", <<"A">>>>
  /\ last.status = 200
  /\ last.writes = 0
  /\ store # {}

\* C34: every invocation of the handler of route.ts ends, and ends with one
\* response: an invocation leaves only by sending, from the end of a path
\* (Rejected or Resolved), a response of status 400, 200 or 500, and every
\* invocation that began is eventually over.
C34_AnsweredOnce ==
  /\ [][ (~Idle /\ Idle')
           => /\ last.phase \in {"Rejected", "Resolved"}
              /\ last.status \in {400, 200, 500}
              /\ last.phase = "Rejected" <=> last.status = 400 ]_vars
  /\ [][ (~Idle /\ ~Idle') => last'.req = last.req ]_vars
  /\ (~Idle) ~> Idle

\* C34 witness: an invocation whose processor call failed is at its end
\* with the response 500 to send
C34_Witness ==
  /\ PhaseOf(last) = "Resolved"
  /\ ProcessorCallFailed(last)
  /\ last.status = 500

\* C35: in the handler of part_005 a customer lookup that throws is taken
\* for no email: an event that embeds no email and whose customer lookup
\* threw is answered 200 with nothing written.
C35_LookupErrorSkips ==
  (/\ last.h = "POSTRefetch"
   /\ Verified
   /\ Ev.type \in Actionable
   /\ ~Truthy(Ev.customer_details_email)
   /\ ~Truthy(Ev.customer_email)
   /\ last.cr = <<"error">>)
    => (last.status = 200 /\ last.writes = 0)

\* the entries of the mapping that match a pair of tokens: the configured
\* id is set and either begins with price_ and is the price token, or
\* begins with prod_ and is the product token
Matching(priceId, productId) ==
  { i \in 1..Len(Labels) :
      LET id == ENV_IDS(Labels[i])
      IN /\ id # Empty
         /\ \/ id[1] = "price_" /\ priceId # Empty /\ id = priceId
            \/ id[1] = "prod_" /\ productId # Empty /\ id = productId }

\* C36: resolvePlan (line 154 and line 19 of route.ts) answers the plan of
\* the first entry, in the order Basic, Pro, Elite, whose configured id
\* begins with price_ and is the price token or begins with prod_ and is the
\* product token, and nothing when there is no such entry: an id of another
\* prefix, or one not set, matches no token.
C36_PrefixGating ==
  res # NoRes
    => LET m == Matching(res.priceId, res.productId)
           first == CHOOSE i \in m : \A j \in m : i <= j
           expected == IF m = {} THEN undefined ELSE PlanInfo(Labels[first])
       IN res.plan = expected /\ res.planFirst = expected

\* C36 witness: Basic is configured with an id of another prefix and the
\* price token is that very id, while Pro is configured with a product id:
\* the answer is Pro, by the product token
C36_Witness ==
  /\ res # NoRes
  /\ env.PRICE_BASIC = <<"plan_", 1>>
  /\ res.priceId = <<"plan_", 1>>
  /\ env.PRICE_PRO = Product(1)
  /\ res.productId = Product(1)
  /\ res.plan = PlanInfo("Pro")

====
